---- MODULE Spec2Model ----
(***************************************************************************)
(* State-machine model of the Brum Brum Tracker backend.                   *)
(*                                                                         *)
(* Part 1: the WebSocket tracker server, backend/server.py                 *)
(* (class AircraftTracker).  The server is one asyncio event loop: one     *)
(* task per client connection (handle_client) and at most a few polling    *)
(* tasks (polling_loop).  A task runs without interruption between two     *)
(* awaits; every await that can suspend (websocket.send, asyncio.sleep,    *)
(* awaiting another task, websocket receive) is a scheduling point.  Each  *)
(* action below is the code one task runs from one scheduling point to the *)
(* next.  A frame handed to websocket.send is written to the transport     *)
(* before send suspends, so a message counts as delivered (appended to the *)
(* socket's inbox) in the step that calls send.                            *)
(***************************************************************************)
EXTENDS Integers, Sequences, FiniteSets, TLC

\* ---------------------------------------------------------------- bounds
\* sockets that ever connect; a reconnect is a new socket
NumSockets == 2
\* poll iterations started over the whole run
MaxPolls == 2
\* distinct ICAO24 identifiers the API can report
NumAircraft == 1
\* frames the handlers read from clients over the run
MaxRequests == 1

Sockets == 1..NumSockets
TaskIds == 1..NumSockets      \* every task is created by a distinct handler
Icaos == 1..NumAircraft
None == 0                     \* Python None (no task, no remembered update)

\* frames a client can send: the three routed shapes, a non-JSON frame, and
\* a JSON frame that is not an object (a list, a string, a number, null)
RequestKinds ==
  {"get_logbook", "get_config", "other", "invalid_json", "not_object"}

\* ---------------------------------------------------------- tracker state
VARIABLES
  connected_clients,   \* AircraftTracker.connected_clients
  last_aircraft_data,  \* id of the remembered aircraft_update, or None
  is_polling,          \* AircraftTracker.is_polling
  polling_task,        \* AircraftTracker.polling_task: a task id or None
  spotted_aircraft,    \* AircraftTracker.spotted_aircraft
  visible_aircraft,    \* AircraftTracker.visible_aircraft
  logbook,             \* number of add_to_logbook calls made per ICAO24
  tasks,               \* the polling_loop task objects, by task id
  polls,               \* poll iterations started so far (ids of the updates)
  pc,                  \* position of each socket's handle_client coroutine
  sockOpen,            \* whether the socket's connection is still open
  inbox,               \* frames written to each open socket, in order
  handled,             \* number of client frames read so far
  awaiting,            \* task a handler awaits in its finally block
  hbcast               \* the broadcast a handler itself is in the middle of
                       \* (server_refactored.py only)

trackerVars == <<connected_clients, last_aircraft_data, is_polling,
                 polling_task, spotted_aircraft, visible_aircraft, logbook,
                 tasks, polls, pc, sockOpen, inbox, handled, awaiting, hbcast>>

\* ---------------------------------------------------------- logbook table
\* (src/backend/database/db.py: one SQLite file, one connection per call)
VARIABLES
  db_rows,      \* the committed rows of table logbook
  db_writer,    \* the caller whose connection holds SQLite's write lock
  db_pc,        \* position of each caller inside add_to_logbook
  db_args,      \* the arguments of the call each caller is in
  db_pending,   \* the table as changed by a caller's uncommitted statement
  db_clock,     \* CURRENT_TIMESTAMP
  db_added,     \* add_to_logbook calls that have returned, per aircraft type
  db_started    \* add_to_logbook calls begun so far

dbVars == <<db_rows, db_writer, db_pc, db_args, db_pending, db_clock,
            db_added, db_started>>

\* ------------------------------------------ rate-limited server: state
\* (src/backend/websocket/server_secure.py and src/backend/rate_limiter.py)
VARIABLES
  clients,             \* SecureWebSocketServer.clients
  connection_info,     \* SecureWebSocketServer.connection_info, by connection
  tracking_task,       \* SecureWebSocketServer.tracking_task and its state
  connection_attempts, \* RateLimiter.connection_attempts: per IP, a deque
  message_counts,      \* RateLimiter.message_counts: per connection, a deque
  active_connections,  \* RateLimiter.active_connections: per IP, a counter
  current_time,                 \* time.time(), in seconds
  ws_pc,               \* position of each connection's handle_websocket
  remote_address,      \* the IP each connection comes from
  ws_open,             \* whether the peer still holds the connection open
  close_code,          \* the code of the close frame the server sent, if any
  ws_inbox,            \* frames the server wrote to each connection, in order
  received,            \* client frames read by the handlers so far
  attempted            \* connections accepted by the listener so far

secVars == <<clients, connection_info, tracking_task, connection_attempts,
             message_counts, active_connections, current_time, ws_pc, remote_address,
             ws_open, close_code, ws_inbox, received, attempted>>

\* ------------------------------------------------ outbound throttle
\* (src/backend/rate_limiter.py, class ConnectionThrottler)
VARIABLES
  request_times,   \* ConnectionThrottler.request_times, a deque
  thr_lock,        \* the caller holding ConnectionThrottler._lock, or None
  thr_pc,          \* position of each caller inside acquire
  thr_wake,        \* the time at which a sleeping caller's sleep ends
  thr_now,         \* time.time(), in ticks
  thr_calls        \* calls of acquire begun so far

thrVars == <<request_times, thr_lock, thr_pc, thr_wake, thr_now, thr_calls>>

\* ------------------------------------------- database connection pool
\* (src/backend/db_pool.py, class ConnectionPool)
VARIABLES
  pool_queue,      \* ConnectionPool._pool, a queue of connections
  pool_active,     \* ConnectionPool._active_connections
  pool_lock,       \* the thread holding ConnectionPool._lock, or None
  pool_closed,     \* ConnectionPool._closed
  conn_state,      \* each sqlite3 connection: not made, open or closed
  conn_expired,    \* whether a connection is older than max_lifetime
  pool_pc,         \* position of each thread inside get_connection
  pool_conn,       \* the local variable conn of each thread
  pool_waited,     \* seconds each thread has waited in _pool.get so far
  pool_calls,      \* calls of get_connection begun so far
  closer_pc        \* position of the thread that runs close_all

poolVars == <<pool_queue, pool_active, pool_lock, pool_closed, conn_state,
              conn_expired, pool_pc, pool_conn, pool_waited, pool_calls,
              closer_pc>>

\* ------------------------------------------------- in-process cache
\* (src/backend/aircraft_cache.py, class LRUCache; every method runs under
\* self.lock)
VARIABLES
  cache,            \* LRUCache.cache, the entries in the OrderedDict's order
  stats,            \* LRUCache.stats
  cache_now,        \* time.time(), in seconds
  cache_ret,        \* what the last call of get returned
  cache_ops,        \* calls of get and set made so far
  cache_used,       \* per key, the number of the call that last used it
  cache_reads,      \* calls of get made so far
  removed_capacity, \* entries removed so far because the cache was full
  removed_ttl       \* entries removed so far because they had expired

cacheVars == <<cache, stats, cache_now, cache_ret, cache_ops, cache_used,
               cache_reads, removed_capacity, removed_ttl>>

\* --------------------------------------------------- authentication
\* (src/backend/auth.py, class AuthManager and the module's instance
\* auth_manager; src/backend/utils/auth.py holds the same code)
VARIABLES
  auth_cfg,      \* auth_enabled, auth_username, auth_password_hash
  valid_tokens,  \* AuthManager.valid_tokens, by token id
  auth_now,      \* time.time(), in seconds
  auth_ret,      \* what the last call of the manager returned
  auth_expiry    \* per token id ever issued, the expiry it was issued with

authVars == <<auth_cfg, valid_tokens, auth_now, auth_ret, auth_expiry>>

\* ------------------------------------------------------ type resolver
\* (src/backend/core/aircraft_type_resolver.py, resolve_aircraft_type, for
\* one ICAO24)
VARIABLES
  res_pc,        \* position inside resolve_aircraft_type
  res_in,        \* what hexdb and Planespotters answer during this call
  res_calls,     \* the sources this call has consulted, in order
  res_accepted,  \* the first source whose type this call accepted
  res_result,    \* what the last call returned
  aircraft_row,  \* column type of the aircraft's row in table aircraft
  res_runs       \* calls of resolve_aircraft_type begun so far

resVars == <<res_pc, res_in, res_calls, res_accepted, res_result,
             aircraft_row, res_runs>>

\* ------------------------------------- the limiter's background sweep
\* (src/backend/rate_limiter.py, RateLimiter.start, stop, _cleanup_loop)
VARIABLES
  cleanup_task,  \* RateLimiter._cleanup_task: no task, or the task object
  lim_last,      \* which of start and stop was called last
  lim_stopping,  \* a caller of stop is awaiting the cancelled task
  lim_calls      \* calls of start and stop made so far

limVars == <<cleanup_task, lim_last, lim_stopping, lim_calls>>

\* ------------------------------------ the logbook of database/db_secure
\* (src/backend/database/db_secure.py, SecureAircraftDatabase.add_to_logbook)
VARIABLES
  sdb_pc,      \* per thread: position inside add_to_logbook
  sdb_type,    \* per thread: the aircraft_type argument of its call
  sdb_result,  \* per thread: how its last call ended
  sdb_writer,  \* the thread whose connection holds SQLite's write lock
  sdb_count,   \* per aircraft type: sighting_count of its committed row
  sdb_calls    \* calls of add_to_logbook begun so far

sdbVars == <<sdb_pc, sdb_type, sdb_result, sdb_writer, sdb_count, sdb_calls>>

\* ------------------------------------------------ the API connection pool
\* (src/backend/api/api_pool.py, class APIConnectionPool)
VARIABLES
  api_pc,              \* per thread: position inside request
  api_host,            \* per thread: the hostname of its request
  api_lock,            \* the thread holding APIConnectionPool._lock
  last_request_times,  \* APIConnectionPool._last_request_times
  rate_limits,         \* APIConnectionPool._rate_limits
  sessions,            \* the keys of APIConnectionPool._sessions
  api_wake,            \* per thread: the end of its latest time.sleep
  api_now,             \* time.time()
  api_calls            \* calls of request begun so far

apiVars == <<api_pc, api_host, api_lock, last_request_times, rate_limits,
             sessions, api_wake, api_now, api_calls>>

\* --------------------------------------------- the visibility pipeline
\* (src/backend/opensky_client.py, filter_aircraft and is_visible as
\* polling_loop applies them, server.py 332 and 344)
VARIABLES
  fa_in,   \* the state vector that was classified last
  fa_out   \* what filter_aircraft and is_visible made of it

faVars == <<fa_in, fa_out>>

\* ------------------------------------------- the stores keyed by ICAO24
\* (database/db.py table aircraft, core/planespotters_client.py
\* _aircraft_details_cache, core/logbook_service.py spotted_aircraft)
VARIABLES
  aircraft_table,          \* the icao24 column of the rows of table aircraft
  aircraft_details_cache,  \* the keys of _aircraft_details_cache
  spotted_set,             \* LogbookService.spotted_aircraft
  icao_ret                 \* the last lookup and what it answered

icaoVars == <<aircraft_table, aircraft_details_cache, spotted_set, icao_ret>>

\* the state of the further components
extraVars == <<limVars, sdbVars, apiVars, faVars, icaoVars>>

\* the state of the library components
libVars == <<thrVars, poolVars, cacheVars, authVars, resVars, extraVars>>

\* the state of everything but the throttle
nonThrVars ==
  <<trackerVars, dbVars, secVars, poolVars, cacheVars, authVars, resVars,
    extraVars>>

\* the state of everything but the connection pool
nonPoolVars ==
  <<trackerVars, dbVars, secVars, thrVars, cacheVars, authVars, resVars,
    extraVars>>

\* the state of everything but the cache
nonCacheVars ==
  <<trackerVars, dbVars, secVars, thrVars, poolVars, authVars, resVars,
    extraVars>>

\* the state of everything but the authentication manager
nonAuthVars ==
  <<trackerVars, dbVars, secVars, thrVars, poolVars, cacheVars, resVars,
    extraVars>>

\* the state of everything but the type resolver
nonResVars ==
  <<trackerVars, dbVars, secVars, thrVars, poolVars, cacheVars, authVars,
    extraVars>>

\* the state of the components above
oldVars ==
  <<trackerVars, dbVars, secVars, thrVars, poolVars, cacheVars, authVars,
    resVars>>

\* the state of everything but the limiter's sweep
nonLimVars == <<oldVars, sdbVars, apiVars, faVars, icaoVars>>

\* the state of everything but the logbook of database/db_secure
nonSdbVars == <<oldVars, limVars, apiVars, faVars, icaoVars>>

\* the state of everything but the API connection pool
nonApiVars == <<oldVars, limVars, sdbVars, faVars, icaoVars>>

\* the state of everything but the visibility pipeline
nonFaVars == <<oldVars, limVars, sdbVars, apiVars, icaoVars>>

\* the state of everything but the stores keyed by ICAO24
nonIcaoVars == <<oldVars, limVars, sdbVars, apiVars, faVars>>

\* the state of the components other than the tracker server
nonTrackerVars == <<dbVars, secVars, libVars>>

vars == <<trackerVars, nonTrackerVars>>

\* ------------------------------------------------------------- messages
Msg(type, id) == [type |-> type, id |-> id]

WelcomeMsg == Msg("welcome", 0)
SearchingMsg == Msg("searching", 0)
UpdateMsg(n) == Msg("aircraft_update", n)
ListMsg(n) == Msg("approaching_aircraft_list", n)
NoAircraftMsg(n) == Msg("no_aircraft", n)

\* the reply handle_client sends for a parsed frame (server.py 456-485)
ResponseFor(kind) ==
  CASE kind = "get_logbook" -> Msg("logbook_data", 0)
    [] kind = "get_config" -> Msg("config", 0)
    [] OTHER -> Msg("echo", 0)

ResponseTypes == {"logbook_data", "config", "echo"}

\* a handler that never replays the remembered update
InitialMessage_NoReplay(last) == SearchingMsg

\* what a new client is sent after the welcome (server.py 432-441)
InitialMessage(last) == IF last # None THEN UpdateMsg(last) ELSE SearchingMsg

\* a polling task object that has not been created yet
\*   pc: "unborn", "new" (created, not run yet), "sleep" (in asyncio.sleep),
\*       "send" (in client.send inside broadcast_message), "done"
\*   cancelled: cancel() was called on it
\*   iter: number of the iteration it runs or ran last
\*   raised: number of the last iteration that ended in "except Exception"
\*   visible: the local list "visible" of the iteration
\*   bkind: the broadcast it is in: "list", "update", "none", or "-"
\*   snap, visited, failed: the connected set when the for loop began, the
\*       sockets the loop has reached, and disconnected_clients
NoTask == [pc |-> "unborn", cancelled |-> FALSE, iter |-> 0, raised |-> 0,
           visible |-> {}, bkind |-> "-",
           snap |-> {}, visited |-> {}, failed |-> {}]

\* the message object a broadcast of the given kind sends in iteration n
BroadcastMsg(kind, n) ==
  CASE kind = "list" -> ListMsg(n)
    [] kind = "update" -> UpdateMsg(n)
    [] kind = "searching" -> SearchingMsg
    [] OTHER -> NoAircraftMsg(n)

\* a task is active while it can still run statements of polling_loop: it
\* exists, has not finished, and no cancellation is pending on it (a task
\* with a pending cancellation only receives CancelledError at its await)
TaskActive(t) == tasks[t].pc \in {"new", "sleep", "send"} /\ ~tasks[t].cancelled

ActiveTasks == {t \in TaskIds : TaskActive(t)}

\* ----------------------------------------------------------------- Init
TrackerInit ==
  /\ connected_clients = {}
  /\ last_aircraft_data = None
  /\ is_polling = FALSE
  /\ polling_task = None
  /\ spotted_aircraft = {}
  /\ visible_aircraft = {}
  /\ logbook = [a \in Icaos |-> 0]
  /\ tasks = [t \in TaskIds |-> NoTask]
  /\ polls = 0
  /\ pc = [c \in Sockets |-> "idle"]
  /\ sockOpen = [c \in Sockets |-> TRUE]
  /\ inbox = [c \in Sockets |-> <<>>]
  /\ handled = 0
  /\ awaiting = [c \in Sockets |-> None]
  /\ hbcast = [c \in Sockets |-> NoTask]

\* ------------------------------------------------ logbook table: values
\* threads that call add_to_logbook
NumDbThreads == 2
\* add_to_logbook calls begun over the whole run
MaxDbCalls == 3
\* distinct simplified aircraft types
NumAircraftTypes == 2

DbThreads == 1..NumDbThreads
AircraftTypes == 1..NumAircraftTypes

\* Python None passed as image_url, and SQL NULL in a column
NoImage == "<None>"
SqlNull == "<NULL>"

\* values of the image_url argument: absent, empty, or one of two URLs
ImageArgs == {NoImage, "", "url_a", "url_b"}

\* a caller that is not inside a call
NoArgs == [type |-> None, image |-> NoImage]

\* the file of a fresh installation: create_logbook_table (62-89) has
\* created the table and it has no rows
DbInit ==
  /\ db_rows = {}
  /\ db_writer = None
  /\ db_pc = [th \in DbThreads |-> "idle"]
  /\ db_args = [th \in DbThreads |-> NoArgs]
  /\ db_pending = [th \in DbThreads |-> {}]
  /\ db_clock = 0
  /\ db_added = [type \in AircraftTypes |-> 0]
  /\ db_started = 0

\* ----------------------------------------- rate-limited server: values
\* connections open at one time; a slot whose handler has ended stands for
\* a fresh connection (a new websocket object with a new connection id)
NumConnections == 2
\* client IP addresses
NumIps == 2
\* last value of the clock
MaxTime == 2
\* frames the handlers read from clients over the run
MaxMessages == 2
\* connections the listener accepts over the run
MaxAttempts == 3
\* RateLimiter's constructor parameters (rate_limiter.py 48-54).  The
\* server builds RateLimiter() with the defaults 5, 60, 100, 60 and 3; the
\* limiter is the same code for every setting, and the model runs it with
\* small settings that keep connection_limit above max_connections_per_ip,
\* as the defaults do.
connection_limit == 2
\* seconds
connection_window == 1
\* messages per connection
message_limit == 1
\* seconds
message_window == 1
\* concurrent connections per IP
max_connections_per_ip == 1

Connections == 1..NumConnections
Ips == 1..NumIps

\* frames validate_client_message (message_validator.py 33-66) refuses: a
\* JSON frame that is not an object, and a frame that is not JSON
InvalidKinds == {"invalid", "invalid_json"}

\* frames a client sends: the two valid types and a frame that is not JSON
ClientMessageKinds == {"hello", "get_logbook", "invalid_json"}

\* the close code of register's rejection (server_secure.py 226)
PolicyViolation == 1008

\* no entry in connection_info
NoInfo == [ip |-> None, message_count |-> 0]

\* tracking_task is None
NoTracking == [pc |-> "none", cancelled |-> FALSE]

\* never assigned: process_aircraft, the only writer, is not reached (see
\* SecTrackAircraft)
selected_plane == None

ErrorMsg(text) == [type |-> "error", error |-> text]

\* no frame is sent
NoReply == [type |-> "none", error |-> ""]

RateLimitError_Dropped == NoReply

\* server_secure.py 329-334
RateLimitError == ErrorMsg("Rate limit exceeded. Please slow down.")

\* str(e) of the json.JSONDecodeError that json.loads raises for a frame
\* such as "x" (message_validator.py 46-48)
JSONDecodeErrorText == "Expecting value: line 1 column 1 (char 0)"

\* str(e) of the ValidationError raised by validate_client_message
\* (message_validator.py 46-52)
ValidationErrorText(kind) ==
  IF kind = "invalid_json" THEN "Invalid JSON: " \o JSONDecodeErrorText
  ELSE "Message must be a JSON object"

\* server_secure.py 337-342: f"Invalid message: {str(e)}"
InvalidMessageError(kind) ==
  ErrorMsg("Invalid message: " \o ValidationErrorText(kind))

\* server_secure.py 321-326
LogbookError == ErrorMsg("Failed to fetch logbook")

\* SecureWebSocketServer.__init__ and RateLimiter.__init__: nobody connected
SecInit ==
  /\ clients = {}
  /\ connection_info = [c \in Connections |-> NoInfo]
  /\ tracking_task = NoTracking
  /\ connection_attempts = [ip \in Ips |-> <<>>]
  /\ message_counts = [c \in Connections |-> <<>>]
  /\ active_connections = [ip \in Ips |-> 0]
  /\ current_time = 0
  /\ ws_pc = [c \in Connections |-> "idle"]
  /\ remote_address = [c \in Connections |-> None]
  /\ ws_open = [c \in Connections |-> FALSE]
  /\ close_code = [c \in Connections |-> None]
  /\ ws_inbox = [c \in Connections |-> <<>>]
  /\ received = 0
  /\ attempted = 0

\* --------------------------------------------- outbound throttle: values
\* tasks that call acquire
NumThrCallers == 2
\* calls of acquire begun over the run
MaxThrCalls == 3
\* ticks of the clock in the 60 seconds of the throttle's window
TicksPerMinute == 2
\* last value of the throttle's clock
MaxThrTime == 4
\* ConnectionThrottler's constructor parameter (rate_limiter.py 257); the
\* server passes 60
requests_per_minute == 1

ThrCallers == 1..NumThrCallers

\* ConnectionThrottler.__init__ (257-266)
ThrInit ==
  /\ request_times = <<>>
  /\ thr_lock = None
  /\ thr_pc = [k \in ThrCallers |-> "idle"]
  /\ thr_wake = [k \in ThrCallers |-> 0]
  /\ thr_now = 0
  /\ thr_calls = 0

\* -------------------------------------------- connection pool: values
\* threads that use the pool
NumPoolThreads == 2
\* calls of get_connection begun over the run
MaxPoolCalls == 3
\* ConnectionPool's constructor parameters (db_pool.py 21-26); the
\* defaults are 2, 10 and 30.0 seconds
min_connections == 1
\* connections allowed
max_connections == 2
\* seconds
connection_timeout == 1

PoolThreads == 1..NumPoolThreads
\* the thread that runs close_all
Closer == NumPoolThreads + 1
\* the connections sqlite3.connect can ever return
PoolConns == 1..(min_connections + MaxPoolCalls)

\* ConnectionPool.__init__ (21-53) and _initialize_pool (55-60):
\* min_connections connections are made and queued
PoolInit ==
  /\ pool_queue = [i \in 1..min_connections |-> i]
  /\ pool_active = min_connections
  /\ pool_lock = None
  /\ pool_closed = FALSE
  /\ conn_state = [c \in PoolConns |->
                     IF c <= min_connections THEN "open" ELSE "none"]
  /\ conn_expired = [c \in PoolConns |-> FALSE]
  /\ pool_pc = [th \in PoolThreads |-> "idle"]
  /\ pool_conn = [th \in PoolThreads |-> None]
  /\ pool_waited = [th \in PoolThreads |-> 0]
  /\ pool_calls = 0
  /\ closer_pc = "idle"

\* ----------------------------------------------------- cache: values
\* cache keys
NumCacheKeys == 3
\* calls of get and set over the run
MaxCacheOps == 4
\* last value of the cache's clock
MaxCacheTime == 3
\* LRUCache's constructor parameters (aircraft_cache.py 40); the defaults
\* are 100 entries and 300 seconds
max_size == 2
\* seconds
default_ttl == 1
\* a time to live given to set, in seconds
LongTtl == 2

CacheKeys == 1..NumCacheKeys
\* the ttl argument of set: absent, or given
CacheTtls == {None, LongTtl}

\* get has not been called
NoResult == [hit |-> FALSE, key |-> None]

\* LRUCache.__init__ (40-57)
CacheInit ==
  /\ cache = <<>>
  /\ stats = [hits |-> 0, misses |-> 0, evictions |-> 0, expirations |-> 0]
  /\ cache_now = 0
  /\ cache_ret = NoResult
  /\ cache_ops = 0
  /\ cache_used = [k \in CacheKeys |-> 0]
  /\ cache_reads = 0
  /\ removed_capacity = 0
  /\ removed_ttl = 0

\* --------------------------------------------- authentication: values
\* token ids generate_token can hand out over the run
MaxTokens == 2
\* last value of the manager's clock
MaxAuthTime == 3
\* AUTH_TOKEN_EXPIRY, in seconds (auth.py 31; the default is 3600)
token_expiry == 2

TokenIds == 1..MaxTokens

\* the values AUTH_USERNAME and AUTH_PASSWORD can have; "" is unset
EnvUsernames == {"", "admin"}
EnvPasswords == {"", "secret"}

\* the user names and passwords a client can send
Usernames == {"", "admin", "guest"}
Passwords == {"", "secret", "wrong"}

\* AuthManager._hash_password (34-38): no hash of the empty password,
\* otherwise the SHA-256 digest, which differs for different passwords
HashPassword(password) ==
  IF password = "" THEN "" ELSE "sha256:" \o password

\* the environment has not been read yet
NoConfig == [configured |-> FALSE, auth_enabled |-> FALSE,
             auth_username |-> "", auth_password_hash |-> ""]

\* no entry for a token id in valid_tokens
NoToken == [username |-> "", timestamp |-> None, expires |-> None]

\* verify_token returns None
NoPayload == [username |-> "", timestamp |-> None]

\* verify_token's answer when is_enabled() is false (86-87)
Anonymous == [username |-> "anonymous", timestamp |-> None]

\* no call has returned
NoAuthResult == [op |-> "none", success |-> FALSE, token |-> None,
                 payload |-> NoPayload]

\* the process before backend.auth is imported
AuthInit ==
  /\ auth_cfg = NoConfig
  /\ valid_tokens = [t \in TokenIds |-> NoToken]
  /\ auth_now = 0
  /\ auth_ret = NoAuthResult
  /\ auth_expiry = [t \in TokenIds |-> None]

\* ---------------------------------------------- type resolver: values
\* calls of resolve_aircraft_type over the run
MaxResolves == 2

\* the sources, in the order of the docstring (135-139)
SourceOrder == <<"cache", "hexdb", "planespotters">>

\* the aircraft has no row in table aircraft
NoRow == "<no row>"

\* a type column written by the placeholder image logic
PlaceholderType == "Boeing 737 (placeholder)"

\* what other components store in the row's type column
OtherTypes == {"", "Unknown Aircraft", PlaceholderType, "Airbus A320"}

\* fetch_aircraft_details_from_hexdb returned None
NoDetails == [found |-> FALSE, has_manufacturer |-> FALSE,
              Manufacturer |-> "", Type |-> ""]

\* what hexdb can answer: nothing, a document without the key
\* Manufacturer, or a document with Manufacturer and Type
HexdbAnswers ==
  {NoDetails,
   [found |-> TRUE, has_manufacturer |-> FALSE,
    Manufacturer |-> "", Type |-> ""]}
  \cup {[found |-> TRUE, has_manufacturer |-> TRUE,
         Manufacturer |-> mf, Type |-> ty] :
          mf \in {"", "Boeing"}, ty \in {"", "737"}}

\* what get_aircraft_type_string can answer; "" is None
PlanespottersAnswers == {"", "Boeing 737", "Aircraft"}

\* GENERIC_AIRCRAFT_TYPES (19-30)
GENERIC_AIRCRAFT_TYPES ==
  {"Unknown Aircraft", "Aircraft", "Boeing Aircraft", "Airbus Aircraft",
   "CRJ Jet", "Unknown Model", "Prop Plane", "Small Plane", "Private Jet",
   "Regional Jet"}

\* no call has returned
NoType == "<none>"

\* the call ended with an exception
Raised == "<raised>"

\* the table aircraft is empty and no call is running
ResInit ==
  /\ res_pc = "idle"
  /\ res_in = [hexdb |-> NoDetails, planespotters |-> ""]
  /\ res_calls = <<>>
  /\ res_accepted = "none"
  /\ res_result = NoType
  /\ aircraft_row = NoRow
  /\ res_runs = 0

\* ------------------------------------------- limiter's sweep: values
\* calls of start and stop over the run
MaxLimCalls == 3

\* RateLimiter.__init__ (97): self._cleanup_task = None
NoCleanupTask == [pc |-> "none", cancelled |-> FALSE]

\* RateLimiter.__init__ (80-97)
LimInit ==
  /\ cleanup_task = NoCleanupTask
  /\ lim_last = "none"
  /\ lim_stopping = FALSE
  /\ lim_calls = 0

\* ------------------------------- logbook of database/db_secure: values
\* calls of add_to_logbook over the run
MaxSdbCalls == 3

\* an empty aircraft_type argument
EmptyType == 0

\* a fresh database file (create_tables, 104-164) and no call running
SdbInit ==
  /\ sdb_pc = [th \in DbThreads |-> "idle"]
  /\ sdb_type = [th \in DbThreads |-> EmptyType]
  /\ sdb_result = [th \in DbThreads |-> "none"]
  /\ sdb_writer = None
  /\ sdb_count = [type \in AircraftTypes |-> 0]
  /\ sdb_calls = 0

\* ------------------------------------------ API connection pool: values
\* threads that call request
NumApiThreads == 2
\* hostnames requested
NumHosts == 2
\* calls of request over the run
MaxApiCalls == 3
\* the clock's range
MaxApiTime == 4
\* the min_interval given to set_rate_limit
min_interval == 2

ApiThreads == 1..NumApiThreads
Hosts == 1..NumHosts

\* APIConnectionPool.__init__ (27-55): no session, no rate limit, no
\* request made; None in a dictionary stands for a missing key
ApiInit ==
  /\ api_pc = [th \in ApiThreads |-> "idle"]
  /\ api_host = [th \in ApiThreads |-> None]
  /\ api_lock = None
  /\ last_request_times = [h \in Hosts |-> None]
  /\ rate_limits = [h \in Hosts |-> None]
  /\ sessions = {}
  /\ api_wake = [th \in ApiThreads |-> None]
  /\ api_now = 1
  /\ api_calls = 0

\* ------------------------------------------ visibility pipeline: values
\* SEARCH_RADIUS_KM (utils/constants.py 24)
SEARCH_RADIUS_KM == 50
\* MIN_ELEVATION_ANGLE (utils/constants.py 25), in degrees
MIN_ELEVATION_ANGLE == 20
\* the altitude floor of filter_aircraft (opensky_client.py 382), in metres
AltitudeFloor == 500
\* 1000 * tan(MIN_ELEVATION_ANGLE degrees), rounded
TanMinElevationPerMille == 364
\* a field of the state vector that is None
Missing == -1

\* baro_altitude in metres: below, at and above the floor, and cruising
Altitudes == {0, 499, 500, 3000, 11000}

\* true_track in degrees
Tracks == {0, 90, 180, 270, 359}

\* positions on the two axes through home, as offsets in km to the east
\* and to the north: overhead, near, at the radius and beyond it
Offsets == {0, 5, -5, 50, -50, 51, -51}
Positions ==
  {[east_km |-> e, north_km |-> 0] : e \in Offsets}
    \cup {[east_km |-> 0, north_km |-> n] : n \in Offsets}

\* the state vectors of a poll: every combination of present and missing
\* baro_altitude and true_track
StateVectors ==
  [on_ground : BOOLEAN,
   baro_altitude : Altitudes \cup {Missing},
   position : Positions,
   true_track : Tracks \cup {Missing}]

\* before the first poll: no state vector, nothing kept, nothing visible
NoStateVector ==
  [on_ground |-> TRUE, baro_altitude |-> Missing,
   position |-> [east_km |-> 0, north_km |-> 0], true_track |-> Missing]

FaInit ==
  /\ fa_in = NoStateVector
  /\ fa_out = [kept |-> FALSE, distance_km |-> Missing, visible |-> FALSE]

\* ---------------------------------------- stores keyed by ICAO24: values
\* airframes whose identifiers occur
NumAirframes == 2

\* the spellings of an airframe's identifier: all letters in lower case,
\* all in upper case, or mixed
Spellings == {"lower", "upper", "mixed"}

\* the ICAO24 strings that callers pass
IcaoStrings == [airframe : 1..NumAirframes, spelling : Spellings]

\* str.lower() and str.upper()
Lower(icao24) == [icao24 EXCEPT !.spelling = "lower"]
Upper(icao24) == [icao24 EXCEPT !.spelling = "upper"]

\* no lookup has been made
NoLookup == [op |-> "none", icao24 |-> Lower([airframe |-> 1,
                                              spelling |-> "lower"]),
             found |-> FALSE]

\* an empty table, an empty module cache and a new LogbookService (35-37)
IcaoInit ==
  /\ aircraft_table = {}
  /\ aircraft_details_cache = {}
  /\ spotted_set = {}
  /\ icao_ret = NoLookup

\* the further components
ExtraInit == LimInit /\ SdbInit /\ ApiInit /\ FaInit /\ IcaoInit

Init ==
  TrackerInit /\ DbInit /\ SecInit /\ ThrInit /\ PoolInit /\ CacheInit
    /\ AuthInit /\ ResInit /\ ExtraInit

\* ------------------------------------------------------- the environment
\* the peer (or the network) closes a connection; from then on every send
\* on the socket raises and the receive loop ends.  The frames written to
\* the connection are only followed while it is open.
SocketClose(c) ==
  /\ pc[c] # "idle"
  /\ sockOpen[c]
  /\ sockOpen' = [sockOpen EXCEPT ![c] = FALSE]
  /\ inbox' = [inbox EXCEPT ![c] = <<>>]
  /\ UNCHANGED <<connected_clients, last_aircraft_data, is_polling,
                 polling_task, spotted_aircraft, visible_aircraft, logbook,
                 tasks, polls, pc, handled, awaiting>>
  /\ UNCHANGED <<hbcast, nonTrackerVars>>

\* ------------------------------------------------- handle_client (406-507)
\* Task.cancel(): a finished task ignores it, any other task gets
\* CancelledError thrown into it at its next step
CancelTask(rec) == IF rec.pc = "done" THEN rec ELSE [rec EXCEPT !.cancelled = TRUE]

\* create_task(self.polling_loop()): the new task object gets the first id
\* not used so far
NewTaskId == CHOOSE t \in TaskIds :
               /\ tasks[t].pc = "unborn"
               /\ \A u \in TaskIds : u < t => tasks[u].pc # "unborn"

\* the finally block (494-507): discard the socket; if the set is now empty
\* and is_polling is set, clear it, cancel polling_task and await it
Finally(c) ==
  LET remaining == connected_clients \ {c} IN
  /\ connected_clients' = remaining
  /\ IF remaining = {} /\ is_polling
       THEN /\ is_polling' = FALSE
            /\ IF polling_task # None
                 THEN /\ tasks' = [tasks EXCEPT ![polling_task] = CancelTask(@)]
                      /\ IF tasks[polling_task].pc = "done"
                           THEN /\ pc' = [pc EXCEPT ![c] = "done"]
                                /\ UNCHANGED awaiting
                           ELSE /\ pc' = [pc EXCEPT ![c] = "stopping"]
                                /\ awaiting' = [awaiting EXCEPT ![c] = polling_task]
                 ELSE /\ pc' = [pc EXCEPT ![c] = "done"]
                      /\ UNCHANGED <<tasks, awaiting>>
       ELSE /\ pc' = [pc EXCEPT ![c] = "done"]
            /\ UNCHANGED <<is_polling, tasks, awaiting>>

\* lines 414-429: a new connection's handler starts, adds the socket to the
\* set and sends the welcome.  The welcome is sent outside any try block: if
\* the send raises, handle_client ends there and the finally block never runs.
HandleClientConnect(c) ==
  /\ pc[c] = "idle"
  /\ \A d \in Sockets : d < c => pc[d] # "idle"
  /\ connected_clients' = connected_clients \cup {c}
  /\ \E alive \in BOOLEAN :
       /\ sockOpen' = [sockOpen EXCEPT ![c] = alive]
       /\ IF alive
            THEN /\ inbox' = [inbox EXCEPT ![c] = Append(@, WelcomeMsg)]
                 /\ pc' = [pc EXCEPT ![c] = "initial"]
            ELSE /\ pc' = [pc EXCEPT ![c] = "crashed"]
                 /\ UNCHANGED inbox
  /\ UNCHANGED <<last_aircraft_data, is_polling, polling_task,
                 spotted_aircraft, visible_aircraft, logbook, tasks, polls,
                 handled, awaiting>>
  /\ UNCHANGED <<hbcast, nonTrackerVars>>

\* lines 431-441, resumed after the welcome send: replay the remembered
\* update or send the searching placeholder (also outside the try block)
HandleClientInitial(c) ==
  /\ pc[c] = "initial"
  /\ IF sockOpen[c]
       THEN /\ inbox' = [inbox EXCEPT ![c] =
                           Append(@, InitialMessage(last_aircraft_data))]
            /\ pc' = [pc EXCEPT ![c] = "start"]
       ELSE /\ pc' = [pc EXCEPT ![c] = "crashed"]
            /\ UNCHANGED inbox
  /\ UNCHANGED <<connected_clients, last_aircraft_data, is_polling,
                 polling_task, spotted_aircraft, visible_aircraft, logbook,
                 tasks, polls, sockOpen, handled, awaiting>>
  /\ UNCHANGED <<hbcast, nonTrackerVars>>

\* a start condition that looks at the size of the set only
ShouldStartPolling_SizeOnly(n, polling) == n = 1

\* the start condition of lines 443-444
ShouldStartPolling(n, polling) == n = 1 /\ ~polling

\* lines 443-450, resumed after the initial send: start polling if this is
\* the first client, then enter the receive loop
HandleClientStartPolling(c) ==
  /\ pc[c] = "start"
  /\ IF ShouldStartPolling(Cardinality(connected_clients), is_polling)
       THEN /\ is_polling' = TRUE
            /\ polling_task' = NewTaskId
            /\ tasks' = [tasks EXCEPT ![NewTaskId] = [NoTask EXCEPT !.pc = "new"]]
       ELSE UNCHANGED <<is_polling, polling_task, tasks>>
  /\ pc' = [pc EXCEPT ![c] = "serving"]
  /\ UNCHANGED <<connected_clients, last_aircraft_data, spotted_aircraft,
                 visible_aircraft, logbook, polls, sockOpen, inbox, handled,
                 awaiting>>
  /\ UNCHANGED <<hbcast, nonTrackerVars>>

\* lines 450-493: the receive loop reads one frame the client sent while its
\* connection was open (the frame may have waited in the receive queue).  A
\* frame that is not JSON is logged and skipped; a frame that is JSON but
\* no object has no method get, so data.get('type') (456) raises
\* AttributeError, which only the outer except clause (492) catches; any
\* other frame is answered; a failing send of the answer leaves the loop
\* through the except clauses into finally.
HandleClientMessage(c, kind) ==
  /\ pc[c] = "serving"
  /\ handled < MaxRequests
  /\ handled' = handled + 1
  /\ IF kind = "invalid_json"
       THEN UNCHANGED <<connected_clients, is_polling, tasks, pc, inbox, awaiting>>
       ELSE IF kind # "not_object" /\ sockOpen[c]
         THEN /\ inbox' = [inbox EXCEPT ![c] = Append(@, ResponseFor(kind))]
              /\ UNCHANGED <<connected_clients, is_polling, tasks, pc, awaiting>>
         ELSE /\ Finally(c)
              /\ UNCHANGED inbox
  /\ UNCHANGED <<last_aircraft_data, polling_task, spotted_aircraft,
                 visible_aircraft, logbook, polls, sockOpen>>
  /\ UNCHANGED <<hbcast, nonTrackerVars>>

\* lines 490-507: the receive loop ends because the connection closed
\* (normally: the loop just ends; abnormally: ConnectionClosed is caught);
\* either way the finally block runs
HandleClientDisconnect(c) ==
  /\ pc[c] = "serving"
  /\ ~sockOpen[c]
  /\ Finally(c)
  /\ UNCHANGED <<last_aircraft_data, polling_task, spotted_aircraft,
                 visible_aircraft, logbook, polls, sockOpen, inbox, handled>>
  /\ UNCHANGED <<hbcast, nonTrackerVars>>

\* lines 503-507: "await self.polling_task" returns once the cancelled task
\* has finished
HandleClientStopped(c) ==
  /\ pc[c] = "stopping"
  /\ tasks[awaiting[c]].pc = "done"
  /\ pc' = [pc EXCEPT ![c] = "done"]
  /\ awaiting' = [awaiting EXCEPT ![c] = None]
  /\ UNCHANGED <<connected_clients, last_aircraft_data, is_polling,
                 polling_task, spotted_aircraft, visible_aircraft, logbook,
                 tasks, polls, sockOpen, inbox, handled>>
  /\ UNCHANGED <<hbcast, nonTrackerVars>>

\* a task object whose coroutine has ended: only its result is left
Finished(rec) == [NoTask EXCEPT !.pc = "done", !.cancelled = rec.cancelled]

\* --------------------------------------------- broadcast_message (280-308)
\* The part of the state one step of a polling task can change: the
\* connected set, the remembered update, the inboxes and the task itself.
World(t) == [conn |-> connected_clients, last |-> last_aircraft_data,
             inbox |-> inbox, t |-> tasks[t]]

\* "await asyncio.sleep(POLLING_INTERVAL)" (404) after an iteration that
\* ran to its end
Sleep(w) == [w EXCEPT !.t.pc = "sleep", !.t.bkind = "-", !.t.snap = {},
                      !.t.visited = {}, !.t.failed = {}]

\* a polling loop whose try block encloses the while loop: the exception
\* is logged and the loop is left
Caught_LeavesLoop(w) ==
  [w EXCEPT !.t = [Finished(w.t) EXCEPT !.raised = w.t.iter]]

\* the "except Exception" clause of polling_loop (400-401): the exception is
\* logged, the rest of the iteration is skipped, and the loop goes to sleep
Caught(w) == [Sleep(w) EXCEPT !.t.raised = w.t.iter]

\* one pass of the for loop body (296-302): send to client c; a send that
\* raises puts c into disconnected_clients; the task then waits in send
SendTo(w, c) ==
  [w EXCEPT !.inbox[c] = IF sockOpen[c]
                           THEN Append(@, BroadcastMsg(w.t.bkind, w.t.iter))
                           ELSE @,
            !.t.failed = IF sockOpen[c] THEN @ ELSE @ \cup {c},
            !.t.visited = @ \cup {c},
            !.t.pc = "send"]

\* line 305, reached when the for loop ends: drop the failed sockets
RemoveDisconnected(w) == [w EXCEPT !.conn = @ \ w.t.failed]

\* after "await self.broadcast_message(message)" of the update (388)
AfterUpdate(w) == {Sleep([w EXCEPT !.last = w.t.iter])}

\* after the broadcast of no_aircraft (397)
AfterNoAircraft(w) == {Sleep([w EXCEPT !.last = None])}

\* lines 287-297: an empty set returns at once (the caller goes on without
\* suspending); otherwise the for loop creates the set iterator and sends to
\* the first socket it yields.  A Python set yields its members in an order
\* the program does not control: any member can come first.
StartBroadcast(w, kind) ==
  {SendTo([w EXCEPT !.t.bkind = kind, !.t.snap = w.conn,
                    !.t.visited = {}, !.t.failed = {}], c)
     : c \in w.conn}

BroadcastUpdate(w) ==
  IF w.conn = {} THEN AfterUpdate(w)
  ELSE StartBroadcast(w, "update")

BroadcastNoAircraft(w) ==
  IF w.conn = {} THEN AfterNoAircraft(w)
  ELSE StartBroadcast(w, "none")

\* lines 368-398, after the dashboard list: format and broadcast the update
\* when aircraft are visible, else announce no_aircraft if an update is
\* remembered.  formatRaises: format_aircraft_message throws.
AfterList(w, formatRaises) ==
  IF w.t.visible # {}
    THEN IF formatRaises THEN {Caught(w)} ELSE BroadcastUpdate(w)
    ELSE IF w.last # None THEN BroadcastNoAircraft(w) ELSE {Sleep(w)}

\* lines 362-366: the dashboard list goes out when filtered is not empty
BroadcastList(w, formatRaises) ==
  IF w.conn = {} THEN AfterList(w, formatRaises)
  ELSE StartBroadcast(w, "list")

\* The task resumes inside the for loop of broadcast_message (295).  The set
\* iterator raises RuntimeError when the set's size differs from its size
\* when the loop began; the error leaves broadcast_message (line 305 is
\* skipped) and is caught by polling_loop.  Otherwise the iterator yields a
\* member not visited yet; sockets added since the loop began may or may not
\* be reached.  When the loop ends, the failed sockets are removed and the
\* iteration of polling_loop goes on.
ResumeBroadcast(w, formatRaises) ==
  LET pending == w.conn \ w.t.visited
      mustVisit == pending \cap w.t.snap
      ended == RemoveDisconnected(w)
      after == CASE w.t.bkind = "list" -> AfterList(ended, formatRaises)
                 [] w.t.bkind = "update" -> AfterUpdate(ended)
                 [] OTHER -> AfterNoAircraft(ended)
  IN IF Cardinality(w.conn) # Cardinality(w.t.snap)
       THEN {Caught(w)}
       ELSE {SendTo(w, c) : c \in pending}
              \cup (IF mustVisit = {} THEN after ELSE {})

\* the four variables a step of a polling task sets from a world
ApplyWorld(t, w) ==
  /\ connected_clients' = w.conn
  /\ last_aircraft_data' = w.last
  /\ inbox' = w.inbox
  /\ tasks' = [tasks EXCEPT ![t] = w.t]

\* ------------------------------------------------- polling_loop (310-404)
\* a loop that submits every visible aircraft on every cycle
NewlyVisible_EveryCycle(visible, seen) == visible

\* lines 349-352: the visible aircraft not yet in self.visible_aircraft
NewlyVisible(visible, seen) == visible \ seen

\* where one iteration can throw: the fetch, the filtering, the logbook
\* write of a newly visible aircraft (its formatting included), the
\* formatting of the dashboard list, the formatting of the update
Faults == {"none", "fetch", "filter", "logbook", "format_list", "format_update"}

\* The task starts, or its sleep ends: the while condition (317) is tested
\* and one iteration runs up to its first suspending await.
\*   fetched: fetch_state_vectors returned a non-empty list
\*   filtered, visible: what filter_aircraft and is_visible keep of it
\*   fault: the statement that throws, if any
\*   failing, before: for fault = "logbook", the newly visible aircraft
\*     whose formatting or logbook write throws and those handled before it
\*   unknownTypes: the visible aircraft for which format_aircraft_message
\*     (149-208) resolves the type 'Unknown Aircraft'; the type is passed to
\*     add_to_logbook as it is (line 357)
PollingLoopIteration(t, unknownTypes) ==
  /\ tasks[t].pc \in {"new", "sleep"}
  /\ ~tasks[t].cancelled
  /\ IF ~is_polling
       THEN /\ tasks' = [tasks EXCEPT ![t] = Finished(@)]
            /\ UNCHANGED <<connected_clients, last_aircraft_data, inbox,
                           spotted_aircraft, visible_aircraft, logbook, polls>>
       ELSE
         /\ polls < MaxPolls
         /\ polls' = polls + 1
         /\ \E fault \in Faults, fetched \in BOOLEAN, filtered \in SUBSET Icaos :
            \E visible \in SUBSET filtered :
            LET newlyVisible == NewlyVisible(visible, visible_aircraft)
                w0 == [World(t) EXCEPT !.t.iter = polls + 1,
                                       !.t.visible = visible]
            IN
            /\ unknownTypes \subseteq visible
            /\ filtered # {} => fetched
            /\ fault = "fetch" => ~fetched
            /\ fault = "filter" => fetched /\ filtered = {}
            /\ fault = "logbook" => newlyVisible # {}
            /\ fault = "format_list" => filtered # {}
            /\ fault = "format_update" => visible # {}
            /\ CASE fault = "fetch" \/ fault = "filter" ->
                      /\ ApplyWorld(t, Caught(w0))
                      /\ UNCHANGED <<spotted_aircraft, visible_aircraft, logbook>>
                 [] fault # "fetch" /\ ~fetched ->
                      /\ ApplyWorld(t, Sleep(w0))
                      /\ UNCHANGED <<spotted_aircraft, visible_aircraft, logbook>>
                 [] fault = "logbook" ->
                      \E failing \in newlyVisible :
                      \E before \in SUBSET (newlyVisible \ {failing}) :
                        /\ spotted_aircraft' = spotted_aircraft \cup filtered
                        /\ visible_aircraft' =
                             visible_aircraft \cup before \cup {failing}
                        /\ logbook' = [a \in Icaos |->
                             IF a \in before THEN logbook[a] + 1 ELSE logbook[a]]
                        /\ ApplyWorld(t, Caught(w0))
                 [] OTHER ->
                      /\ spotted_aircraft' = spotted_aircraft \cup filtered
                      /\ visible_aircraft' = visible_aircraft \cup newlyVisible
                      /\ logbook' = [a \in Icaos |->
                           IF a \in newlyVisible THEN logbook[a] + 1 ELSE logbook[a]]
                      /\ IF filtered # {}
                           THEN IF fault = "format_list"
                             THEN ApplyWorld(t, Caught(w0))
                             ELSE \E w \in BroadcastList(w0, fault = "format_update") :
                                    ApplyWorld(t, w)
                           ELSE \E w \in AfterList(w0, FALSE) : ApplyWorld(t, w)
  /\ UNCHANGED <<is_polling, polling_task, pc, sockOpen, handled, awaiting>>
  /\ UNCHANGED <<hbcast, nonTrackerVars>>

\* one step of the polling task, whatever types the lookups resolve
PollingLoopIterate(t) ==
  \E unknownTypes \in SUBSET Icaos : PollingLoopIteration(t, unknownTypes)

\* The task resumes from the send it was suspended in and runs on to its
\* next suspending await.
PollingLoopResume(t) ==
  /\ tasks[t].pc = "send"
  /\ ~tasks[t].cancelled
  /\ \E formatRaises \in BOOLEAN :
       /\ formatRaises => tasks[t].bkind = "list" /\ tasks[t].visible # {}
       /\ \E w \in ResumeBroadcast(World(t), formatRaises) : ApplyWorld(t, w)
  /\ UNCHANGED <<is_polling, polling_task, spotted_aircraft, visible_aircraft,
                 logbook, polls, pc, sockOpen, handled, awaiting>>
  /\ UNCHANGED <<hbcast, nonTrackerVars>>

\* A task with a pending cancellation is resumed with CancelledError at the
\* await it is suspended in (or before its first statement).  CancelledError
\* is not an Exception, so neither except clause catches it: the task ends.
PollingLoopCancelled(t) ==
  /\ tasks[t].pc \in {"new", "sleep", "send"}
  /\ tasks[t].cancelled
  /\ tasks' = [tasks EXCEPT ![t] = Finished(@)]
  /\ UNCHANGED <<connected_clients, last_aircraft_data, is_polling,
                 polling_task, spotted_aircraft, visible_aircraft, logbook,
                 polls, pc, sockOpen, inbox, handled, awaiting>>
  /\ UNCHANGED <<hbcast, nonTrackerVars>>

\* ------------------------------------------------------------------ Next
Next ==
  \/ \E c \in Sockets : SocketClose(c)
  \/ \E c \in Sockets : HandleClientConnect(c)
  \/ \E c \in Sockets : HandleClientInitial(c)
  \/ \E c \in Sockets : HandleClientStartPolling(c)
  \/ \E c \in Sockets, kind \in RequestKinds : HandleClientMessage(c, kind)
  \/ \E c \in Sockets : HandleClientDisconnect(c)
  \/ \E c \in Sockets : HandleClientStopped(c)
  \/ \E t \in TaskIds : PollingLoopIterate(t)
  \/ \E t \in TaskIds : PollingLoopResume(t)
  \/ \E t \in TaskIds : PollingLoopCancelled(t)

Spec == Init /\ [][Next]_vars

\* =================================================================
\* The refactored tracker (src/backend/websocket/server_refactored.py)
\* =================================================================
\* It keeps the same four fields (40-44).  Its handler sends the welcome and
\* the initial message inside the try block, announces "searching" to every
\* client when nothing is remembered, and answers requests in
\* handle_client_message, which swallows every exception.  Its polling loop
\* tests "is_polling and connected_clients", so it can leave on its own.
\* SocketClose, PollingLoopCancelled, HandleClientStopped and Finally are
\* shared: the finally block (191-204) has the text of server.py's.

\* handle_client_message (128-149): get_logbook is answered with the
\* logbook, any other JSON frame is echoed
RefResponseFor(kind) ==
  IF kind = "get_logbook" THEN Msg("logbook_data", 0) ELSE Msg("echo", 0)

\* the part of the state the handler's own broadcast can change
RefHandlerWorld(c) == [conn |-> connected_clients, last |-> last_aircraft_data,
                       inbox |-> inbox, t |-> hbcast[c]]

\* lines 178-184: start polling if this is the first client, then enter the
\* receive loop; n is the size of the connected set
RefStartCheck(c, n) ==
  /\ IF ShouldStartPolling(n, is_polling)
       THEN /\ is_polling' = TRUE
            /\ polling_task' = NewTaskId
            /\ tasks' = [tasks EXCEPT ![NewTaskId] = [NoTask EXCEPT !.pc = "new"]]
       ELSE UNCHANGED <<is_polling, polling_task, tasks>>
  /\ pc' = [pc EXCEPT ![c] = "serving"]

\* lines 151-171: add the socket and send the welcome.  A failing send is
\* caught (186-189) and the finally block discards the socket again.
RefHandleClientConnect(c) ==
  /\ pc[c] = "idle"
  /\ \A d \in Sockets : d < c => pc[d] # "idle"
  /\ \E alive \in BOOLEAN :
       /\ sockOpen' = [sockOpen EXCEPT ![c] = alive]
       /\ IF alive
            THEN /\ connected_clients' = connected_clients \cup {c}
                 /\ inbox' = [inbox EXCEPT ![c] = Append(@, WelcomeMsg)]
                 /\ pc' = [pc EXCEPT ![c] = "initial"]
                 /\ UNCHANGED <<is_polling, tasks, awaiting>>
            ELSE /\ Finally(c)
                 /\ UNCHANGED inbox
  /\ UNCHANGED <<last_aircraft_data, polling_task, spotted_aircraft,
                 visible_aircraft, logbook, polls, handled, hbcast>>
  /\ UNCHANGED nonTrackerVars

\* lines 173-181, resumed after the welcome send: replay the remembered
\* update to this socket, or broadcast "searching" to the whole set.  An
\* empty set makes broadcast_message return at once, and the handler goes on
\* to the start check without suspending.
RefHandleClientInitial(c) ==
  /\ pc[c] = "initial"
  /\ IF last_aircraft_data # None
       THEN /\ IF sockOpen[c]
                 THEN /\ inbox' = [inbox EXCEPT ![c] =
                                     Append(@, UpdateMsg(last_aircraft_data))]
                      /\ pc' = [pc EXCEPT ![c] = "start"]
                      /\ UNCHANGED <<connected_clients, is_polling, tasks,
                                     awaiting>>
                 ELSE /\ Finally(c)
                      /\ UNCHANGED inbox
            /\ UNCHANGED <<polling_task, hbcast>>
       ELSE IF connected_clients = {}
         THEN /\ RefStartCheck(c, 0)
              /\ UNCHANGED <<connected_clients, inbox, awaiting, hbcast>>
         ELSE /\ \E w \in StartBroadcast(RefHandlerWorld(c), "searching") :
                   /\ inbox' = w.inbox
                   /\ hbcast' = [hbcast EXCEPT ![c] = w.t]
              /\ pc' = [pc EXCEPT ![c] = "bcast"]
              /\ UNCHANGED <<connected_clients, is_polling, polling_task,
                             tasks, awaiting>>
  /\ UNCHANGED <<last_aircraft_data, spotted_aircraft, visible_aircraft,
                 logbook, polls, sockOpen, handled>>
  /\ UNCHANGED nonTrackerVars

\* The handler resumes inside the for loop of its searching broadcast
\* (108-115).  A set whose size changed makes the iterator raise
\* RuntimeError, which handle_client catches (188-189) on its way to the
\* finally block.  When the loop ends the failed sockets are removed (118)
\* and the start check follows.
RefHandleClientBroadcast(c) ==
  /\ pc[c] = "bcast"
  /\ LET w == RefHandlerWorld(c)
         pending == w.conn \ w.t.visited
         mustVisit == pending \cap w.t.snap
         ended == RemoveDisconnected(w)
     IN IF Cardinality(w.conn) # Cardinality(w.t.snap)
          THEN /\ Finally(c)
               /\ hbcast' = [hbcast EXCEPT ![c] = NoTask]
               /\ UNCHANGED <<inbox, polling_task>>
          ELSE \/ /\ \E d \in pending :
                       /\ inbox' = SendTo(w, d).inbox
                       /\ hbcast' = [hbcast EXCEPT ![c] = SendTo(w, d).t]
                  /\ UNCHANGED <<connected_clients, is_polling, polling_task,
                                 tasks, pc, awaiting>>
               \/ /\ mustVisit = {}
                  /\ connected_clients' = ended.conn
                  /\ hbcast' = [hbcast EXCEPT ![c] = NoTask]
                  /\ RefStartCheck(c, Cardinality(ended.conn))
                  /\ UNCHANGED <<inbox, awaiting>>
  /\ UNCHANGED <<last_aircraft_data, spotted_aircraft, visible_aircraft,
                 logbook, polls, sockOpen, handled>>
  /\ UNCHANGED nonTrackerVars

\* lines 178-184, resumed after the replay of the remembered update
RefHandleClientStartPolling(c) ==
  /\ pc[c] = "start"
  /\ RefStartCheck(c, Cardinality(connected_clients))
  /\ UNCHANGED <<connected_clients, last_aircraft_data, spotted_aircraft,
                 visible_aircraft, logbook, polls, sockOpen, inbox, handled,
                 awaiting, hbcast>>
  /\ UNCHANGED nonTrackerVars

\* lines 183-184 with handle_client_message (128-149): a frame that is not
\* JSON is logged; any other frame is answered; a failing send of the answer
\* is caught inside handle_client_message and the receive loop goes on
RefHandleClientMessage(c, kind) ==
  /\ pc[c] = "serving"
  /\ handled < MaxRequests
  /\ handled' = handled + 1
  /\ inbox' = IF kind # "invalid_json" /\ sockOpen[c]
                THEN [inbox EXCEPT ![c] = Append(@, RefResponseFor(kind))]
                ELSE inbox
  /\ UNCHANGED <<connected_clients, last_aircraft_data, is_polling,
                 polling_task, spotted_aircraft, visible_aircraft, logbook,
                 tasks, polls, pc, sockOpen, awaiting, hbcast>>
  /\ UNCHANGED nonTrackerVars

\* lines 183-204: the receive loop ends because the connection closed
RefHandleClientDisconnect(c) ==
  /\ pc[c] = "serving"
  /\ ~sockOpen[c]
  /\ Finally(c)
  /\ UNCHANGED <<last_aircraft_data, polling_task, spotted_aircraft,
                 visible_aircraft, logbook, polls, sockOpen, inbox, handled,
                 hbcast>>
  /\ UNCHANGED nonTrackerVars

\* what follows a broadcast of polling_loop (76-91): after the update the
\* dashboard list is formatted and broadcast; after "searching" the
\* remembered update is cleared; after the list the iteration is over
RefAfterBroadcast(w, formatRaises) ==
  CASE w.t.bkind = "update" ->
         IF formatRaises THEN {Caught(w)}
         ELSE IF w.conn = {} THEN {Sleep(w)}
         ELSE StartBroadcast(w, "list")
    [] w.t.bkind = "searching" -> {Sleep([w EXCEPT !.last = None])}
    [] OTHER -> {Sleep(w)}

\* the polling task resumes inside the for loop of broadcast_message
\* (108-118); RuntimeError from the set iterator is caught at line 93
RefResumeBroadcast(w, formatRaises) ==
  LET pending == w.conn \ w.t.visited
      mustVisit == pending \cap w.t.snap
  IN IF Cardinality(w.conn) # Cardinality(w.t.snap)
       THEN {Caught(w)}
       ELSE {SendTo(w, c) : c \in pending}
              \cup (IF mustVisit = {}
                      THEN RefAfterBroadcast(RemoveDisconnected(w), formatRaises)
                      ELSE {})

\* process_aircraft_for_logbook (core/logbook_service.py 151-191): an
\* aircraft not yet spotted whose type is known is written to the logbook;
\* only a successful write marks it spotted
RefShouldAdd(icao, typeKnown) == icao \notin spotted_aircraft /\ typeKnown

\* polling_loop (50-97): the task starts, or its sleep ends; the while
\* condition is tested and one iteration runs up to its first suspending
\* await.
\*   visible: what fetch_aircraft_data returned (None and [] are {})
\*   best: the aircraft select_best_plane picks
\*   formatRaises: format_aircraft_message throws
\*   typeKnown, writeOk: the type is not 'Unknown Aircraft'; the write works
RefPollingLoopIterate(t) ==
  /\ tasks[t].pc \in {"new", "sleep"}
  /\ ~tasks[t].cancelled
  /\ IF ~(is_polling /\ connected_clients # {})
       THEN /\ tasks' = [tasks EXCEPT ![t] = Finished(@)]
            /\ UNCHANGED <<connected_clients, last_aircraft_data, inbox,
                           spotted_aircraft, logbook, polls>>
       ELSE
         /\ polls < MaxPolls
         /\ polls' = polls + 1
         /\ \E visible \in SUBSET Icaos :
            LET w0 == [World(t) EXCEPT !.t.iter = polls + 1,
                                       !.t.visible = visible]
            IN IF visible = {}
                 THEN /\ \E w \in StartBroadcast(w0, "searching") :
                           ApplyWorld(t, w)
                      /\ UNCHANGED <<spotted_aircraft, logbook>>
                 ELSE \E best \in visible :
                      \E formatRaises, typeKnown, writeOk \in BOOLEAN :
                        IF formatRaises
                          THEN /\ ~typeKnown /\ ~writeOk
                               /\ ApplyWorld(t, Caught(w0))
                               /\ UNCHANGED <<spotted_aircraft, logbook>>
                          ELSE
                            /\ IF RefShouldAdd(best, typeKnown) /\ writeOk
                                 THEN /\ logbook' = [logbook EXCEPT ![best] = @ + 1]
                                      /\ spotted_aircraft' =
                                           spotted_aircraft \cup {best}
                                 ELSE UNCHANGED <<spotted_aircraft, logbook>>
                            /\ \E w \in StartBroadcast(
                                   [w0 EXCEPT !.last = polls + 1], "update") :
                                 ApplyWorld(t, w)
  /\ UNCHANGED <<is_polling, polling_task, visible_aircraft, pc, sockOpen,
                 handled, awaiting, hbcast>>
  /\ UNCHANGED nonTrackerVars

\* the task resumes from the send it was suspended in and runs on to its
\* next suspending await; formatRaises: format_aircraft_list_message throws
RefPollingLoopResume(t) ==
  /\ tasks[t].pc = "send"
  /\ ~tasks[t].cancelled
  /\ \E formatRaises \in BOOLEAN :
       /\ formatRaises => tasks[t].bkind = "update"
       /\ \E w \in RefResumeBroadcast(World(t), formatRaises) : ApplyWorld(t, w)
  /\ UNCHANGED <<is_polling, polling_task, spotted_aircraft, visible_aircraft,
                 logbook, polls, pc, sockOpen, handled, awaiting, hbcast>>
  /\ UNCHANGED nonTrackerVars

NextRefactored ==
  \/ \E c \in Sockets : SocketClose(c)
  \/ \E c \in Sockets : RefHandleClientConnect(c)
  \/ \E c \in Sockets : RefHandleClientInitial(c)
  \/ \E c \in Sockets : RefHandleClientBroadcast(c)
  \/ \E c \in Sockets : RefHandleClientStartPolling(c)
  \/ \E c \in Sockets, kind \in RequestKinds : RefHandleClientMessage(c, kind)
  \/ \E c \in Sockets : RefHandleClientDisconnect(c)
  \/ \E c \in Sockets : HandleClientStopped(c)
  \/ \E t \in TaskIds : RefPollingLoopIterate(t)
  \/ \E t \in TaskIds : RefPollingLoopResume(t)
  \/ \E t \in TaskIds : PollingLoopCancelled(t)

SpecRefactored == Init /\ [][NextRefactored]_vars

\* =================================================================
\* The logbook table (src/backend/database/db.py)
\* =================================================================
\* Every call of the module-level add_to_logbook (234-237) opens its own
\* connection, runs the upsert of AircraftDatabase.add_to_logbook (91-107)
\* and commits.  SQLite admits one write transaction at a time: the INSERT
\* takes the write lock (waiting up to busy_timeout, line 44) and the commit
\* releases it.  Callers are threads; each action is one database call of
\* one thread.

\* add_to_logbook passes "image_url or ''" (106): None and '' become ''
ImageParam(image) == IF image = NoImage \/ image = "" THEN "" ELSE image

\* SQL COALESCE(a, b): the first argument that is not NULL
Coalesce(a, b) == IF a # SqlNull THEN a ELSE b

\* an upsert that ignores a conflicting row (INSERT OR IGNORE)
UpsertLogbook_InsertOrIgnore(rows, type, image, now) ==
  IF \E r \in rows : r.aircraft_type = type
    THEN rows
    ELSE rows \cup {[aircraft_type |-> type, image_url |-> image,
                     first_spotted |-> now, last_spotted |-> now,
                     sighting_count |-> 1]}

\* the statement of lines 99-106: INSERT ... ON CONFLICT(aircraft_type) DO
\* UPDATE SET sighting_count = sighting_count + 1, last_spotted =
\* CURRENT_TIMESTAMP, image_url = COALESCE(excluded.image_url, image_url);
\* first_spotted takes its column default (73) on insert
UpsertLogbook(rows, type, image, now) ==
  IF \E r \in rows : r.aircraft_type = type
    THEN {IF r.aircraft_type = type
            THEN [r EXCEPT !.sighting_count = @ + 1,
                           !.last_spotted = now,
                           !.image_url = Coalesce(image, @)]
            ELSE r : r \in rows}
    ELSE rows \cup {[aircraft_type |-> type, image_url |-> image,
                     first_spotted |-> now, last_spotted |-> now,
                     sighting_count |-> 1]}

\* a database that lets two write transactions run side by side
DbWriteLockFree_NoLock(th) == TRUE

\* SQLite's single-writer rule: no other connection holds the write lock
DbWriteLockFree(th) == db_writer = None

\* lines 234-236: a thread calls add_to_logbook(aircraft_type, image_url);
\* "with AircraftDatabase() as db" opens a connection of its own (28-31)
DbAddToLogbook(th, type, image) ==
  /\ db_pc[th] = "idle"
  /\ db_started < MaxDbCalls
  /\ db_started' = db_started + 1
  /\ db_pc' = [db_pc EXCEPT ![th] = "connected"]
  /\ db_args' = [db_args EXCEPT ![th] = [type |-> type, image |-> image]]
  /\ UNCHANGED <<db_rows, db_writer, db_pending, db_clock, db_added>>
  /\ UNCHANGED <<trackerVars, secVars, libVars>>

\* lines 96-106: cursor.execute runs the upsert inside a write transaction
\* of this connection; the change is not yet visible to other connections.
\* CURRENT_TIMESTAMP is the wall clock, which may have advanced.
DbExecute(th) ==
  /\ db_pc[th] = "connected"
  /\ DbWriteLockFree(th)
  /\ \E now \in {db_clock, db_clock + 1} :
       /\ db_clock' = now
       /\ db_pending' = [db_pending EXCEPT ![th] =
            UpsertLogbook(db_rows, db_args[th].type,
                          ImageParam(db_args[th].image), now)]
  /\ db_writer' = th
  /\ db_pc' = [db_pc EXCEPT ![th] = "executed"]
  /\ UNCHANGED <<db_rows, db_args, db_added, db_started>>
  /\ UNCHANGED <<trackerVars, secVars, libVars>>

\* the write lock stayed taken for the whole busy_timeout (41-44): execute
\* raises sqlite3.OperationalError, the with block closes the connection and
\* the call ends with the exception
DbLocked(th) ==
  /\ db_pc[th] = "connected"
  /\ db_writer # None
  /\ db_pc' = [db_pc EXCEPT ![th] = "idle"]
  /\ db_args' = [db_args EXCEPT ![th] = NoArgs]
  /\ UNCHANGED <<db_rows, db_writer, db_pending, db_clock, db_added,
                 db_started>>
  /\ UNCHANGED <<trackerVars, secVars, libVars>>

\* line 107 and the end of the with block (190-192): commit makes the
\* change visible and releases the write lock; the call returns
DbCommit(th) ==
  /\ db_pc[th] = "executed"
  /\ db_rows' = db_pending[th]
  /\ db_writer' = IF db_writer = th THEN None ELSE db_writer
  /\ db_added' = [db_added EXCEPT ![db_args[th].type] = @ + 1]
  /\ db_pc' = [db_pc EXCEPT ![th] = "idle"]
  /\ db_args' = [db_args EXCEPT ![th] = NoArgs]
  /\ db_pending' = [db_pending EXCEPT ![th] = {}]
  /\ UNCHANGED <<db_clock, db_started>>
  /\ UNCHANGED <<trackerVars, secVars, libVars>>

NextDb ==
  \/ \E th \in DbThreads, type \in AircraftTypes, image \in ImageArgs :
       DbAddToLogbook(th, type, image)
  \/ \E th \in DbThreads : DbExecute(th)
  \/ \E th \in DbThreads : DbLocked(th)
  \/ \E th \in DbThreads : DbCommit(th)

SpecDb == Init /\ [][NextDb]_vars

\* =================================================================
\* Part 4: the rate-limited server, backend/websocket/server_secure.py
\* (class SecureWebSocketServer, handle_websocket) with
\* backend/rate_limiter.py (class RateLimiter).  One asyncio event loop;
\* every action is the code one task runs between two suspensions.
\* rate_limiter.py names typing.Any in an annotation without importing it
\* (line 237); the model describes the class as written, as it runs where
\* annotations are not evaluated when the class body is executed.
\* =================================================================

\* while attempts and attempts[0] < cutoff: attempts.popleft()
RECURSIVE Prune(_, _)
Prune(q, cutoff) ==
  IF q # <<>> /\ q[1] < cutoff THEN Prune(Tail(q), cutoff) ELSE q

ConnectionLimitReached_OffByOne(n) == n > connection_limit

\* rate_limiter.py 170: len(attempts) >= self.connection_limit
ConnectionLimitReached(n) == n >= connection_limit

IpCapReached_Never(n) == FALSE

\* rate_limiter.py 176: active_connections[ip] >= max_connections_per_ip
IpCapReached(n) == n >= max_connections_per_ip

check_connection_allowed_RecordsRefused(client_ip) ==
  [allowed |->
     ~(\/ ConnectionLimitReached(
             Len(Prune(connection_attempts[client_ip],
                       current_time - connection_window)))
       \/ IpCapReached(active_connections[client_ip])),
   attempts |->
     Append(Prune(connection_attempts[client_ip],
                  current_time - connection_window), current_time),
   active |-> active_connections[client_ip] + 1]

\* RateLimiter.check_connection_allowed (148-185): the pruned window is
\* kept even when the attempt is refused; only an admitted attempt is
\* recorded and counted
check_connection_allowed(client_ip) ==
  LET attempts == Prune(connection_attempts[client_ip],
                        current_time - connection_window)
      active == active_connections[client_ip]
  IN  IF ConnectionLimitReached(Len(attempts)) \/ IpCapReached(active)
      THEN [allowed |-> FALSE, attempts |-> attempts, active |-> active]
      ELSE [allowed |-> TRUE, attempts |-> Append(attempts, current_time),
            active |-> active + 1]

\* RateLimiter.check_message_allowed (187-217)
check_message_allowed(connection_id) ==
  LET messages == Prune(message_counts[connection_id], current_time - message_window)
  IN  IF Len(messages) >= message_limit
      THEN [allowed |-> FALSE, messages |-> messages]
      ELSE [allowed |-> TRUE, messages |-> Append(messages, current_time)]

Decremented_Kept(n) == n

\* rate_limiter.py 229: max(0, active_connections[ip] - 1)
Decremented(n) == IF n - 1 > 0 THEN n - 1 ELSE 0

\* RateLimiter.connection_closed (219-235), the counter of the IP: a
\* counter at zero is a deleted key
connection_closed(client_ip) ==
  [active_connections EXCEPT ![client_ip] =
     IF @ > 0 THEN Decremented(@) ELSE @]

\* handle_websocket of connection c moves on to next_pc; when it has
\* returned ("idle") its websocket object is gone
SlotFree(c, next_pc) ==
  /\ ws_pc' = [ws_pc EXCEPT ![c] = next_pc]
  /\ IF next_pc = "idle"
     THEN /\ remote_address' = [remote_address EXCEPT ![c] = None]
          /\ ws_open' = [ws_open EXCEPT ![c] = FALSE]
          /\ close_code' = [close_code EXCEPT ![c] = None]
          /\ ws_inbox' = [ws_inbox EXCEPT ![c] = <<>>]
     ELSE UNCHANGED <<remote_address, ws_open, close_code, ws_inbox>>

\* SecureWebSocketServer.start_tracking (345-349)
start_tracking(task) ==
  IF task = NoTracking THEN [pc |-> "new", cancelled |-> FALSE] ELSE task

\* SecureWebSocketServer.register (179-227) as the first step of
\* handle_websocket (494): nothing suspends on the admitted path, because
\* start_tracking does not wait and selected_plane is None; the refused
\* path suspends in websocket.close.  Free slots are interchangeable: a new
\* connection takes the lowest one.
SecRegister(c, ip) ==
  /\ ws_pc[c] = "idle"
  /\ \A d \in Connections : ws_pc[d] = "idle" => c <= d
  /\ attempted < MaxAttempts
  /\ attempted' = attempted + 1
  /\ LET r == check_connection_allowed(ip)
     IN  /\ connection_attempts' =
              [connection_attempts EXCEPT ![ip] = r.attempts]
         /\ active_connections' =
              [active_connections EXCEPT ![ip] = r.active]
         /\ remote_address' = [remote_address EXCEPT ![c] = ip]
         /\ ws_open' = [ws_open EXCEPT ![c] = TRUE]
         /\ IF r.allowed
            THEN /\ clients' = clients \cup {c}
                 /\ connection_info' = [connection_info EXCEPT ![c] =
                      [ip |-> ip, message_count |-> 0]]
                 /\ tracking_task' =
                      IF Cardinality(clients') = 1
                      THEN start_tracking(tracking_task) ELSE tracking_task
                 /\ ws_pc' = [ws_pc EXCEPT ![c] = "serving"]
                 /\ UNCHANGED close_code
            ELSE /\ close_code' = [close_code EXCEPT ![c] = PolicyViolation]
                 /\ ws_pc' = [ws_pc EXCEPT ![c] = "closing"]
                 /\ UNCHANGED <<clients, connection_info, tracking_task>>
  /\ UNCHANGED <<message_counts, current_time, ws_inbox, received>>
  /\ UNCHANGED <<trackerVars, dbVars, libVars>>

\* the peer closes or loses its connection
SecPeerClose(c) ==
  /\ ws_pc[c] \in {"serving", "closing"}
  /\ ws_open[c]
  /\ ws_open' = [ws_open EXCEPT ![c] = FALSE]
  /\ UNCHANGED <<clients, connection_info, tracking_task,
                 connection_attempts, message_counts, active_connections,
                 current_time, ws_pc, remote_address, close_code, ws_inbox, received>>
  /\ UNCHANGED <<attempted, trackerVars, dbVars, libVars>>

\* SecureWebSocketServer.unregister (229-250) with stop_tracking (351-362)
\* up to its await, called from the finally block of handle_websocket
\* (502-503); counts is message_counts as the caller leaves it.  Awaiting a
\* task that is already done does not suspend.
unregister(c, counts) ==
  IF c \in clients
  THEN /\ clients' = clients \ {c}
       /\ active_connections' = connection_closed(connection_info[c].ip)
       /\ message_counts' = [counts EXCEPT ![c] = <<>>]
       /\ connection_info' = [connection_info EXCEPT ![c] = NoInfo]
       /\ IF clients' = {} /\ tracking_task # NoTracking
          THEN IF tracking_task.pc = "done"
               THEN /\ tracking_task' = NoTracking
                    /\ SlotFree(c, "idle")
               ELSE /\ tracking_task' =
                         [tracking_task EXCEPT !.cancelled = TRUE]
                    /\ SlotFree(c, "stopping")
          ELSE /\ UNCHANGED tracking_task
               /\ SlotFree(c, "idle")
  ELSE /\ message_counts' = counts
       /\ UNCHANGED <<clients, connection_info, active_connections,
                      tracking_task>>
       /\ SlotFree(c, "idle")

\* what handle_client_message (285-343) answers: the limiter's refusal,
\* the validator's refusal, or the failure of get_logbook(limit=limit),
\* which backend/db.py's get_logbook(since) refuses with a TypeError
ReplyTo(allowed, kind) ==
  IF ~allowed THEN RateLimitError
  ELSE IF kind \in InvalidKinds THEN InvalidMessageError(kind)
  ELSE IF kind = "get_logbook" THEN LogbookError
  ELSE NoReply

\* handle_websocket reads one frame of an admitted connection and runs
\* handle_client_message (285-343); a send on a closed connection raises
\* ConnectionClosed, which ends the handler through its finally block
SecHandleMessage(c, kind) ==
  /\ ws_pc[c] = "serving"
  /\ received < MaxMessages
  /\ received' = received + 1
  /\ LET m == check_message_allowed(c)
         counts == [message_counts EXCEPT ![c] = m.messages]
         reply == ReplyTo(m.allowed, kind)
     IN  IF reply = NoReply \/ ws_open[c]
         THEN /\ message_counts' = counts
              /\ connection_info' =
                   IF m.allowed /\ kind \notin InvalidKinds
                   THEN [connection_info EXCEPT ![c].message_count = @ + 1]
                   ELSE connection_info
              /\ ws_inbox' =
                   IF reply = NoReply THEN ws_inbox
                   ELSE [ws_inbox EXCEPT ![c] = Append(@, reply)]
              /\ UNCHANGED <<clients, active_connections, tracking_task,
                             ws_pc, remote_address, ws_open, close_code>>
         ELSE unregister(c, counts)
  /\ UNCHANGED <<connection_attempts, current_time>>
  /\ UNCHANGED <<attempted, trackerVars, dbVars, libVars>>

\* the receive loop of an admitted connection ends: the finally block
SecDisconnect(c) ==
  /\ ws_pc[c] = "serving"
  /\ ~ws_open[c]
  /\ unregister(c, message_counts)
  /\ UNCHANGED <<connection_attempts, current_time, received>>
  /\ UNCHANGED <<attempted, trackerVars, dbVars, libVars>>

\* stop_tracking after its await (357-361); the handler returns
SecStopped(c) ==
  /\ ws_pc[c] = "wake"
  /\ tracking_task' = NoTracking
  /\ SlotFree(c, "idle")
  /\ UNCHANGED <<clients, connection_info, connection_attempts,
                 message_counts, active_connections, current_time, received>>
  /\ UNCHANGED <<attempted, trackerVars, dbVars, libVars>>

\* websocket.close(code=1008) of a refused connection returns (226-227)
SecCloseDone(c) ==
  /\ ws_pc[c] = "closing"
  /\ ws_open' = [ws_open EXCEPT ![c] = FALSE]
  /\ ws_pc' = [ws_pc EXCEPT ![c] = "rejected"]
  /\ UNCHANGED <<clients, connection_info, tracking_task,
                 connection_attempts, message_counts, active_connections,
                 current_time, remote_address, close_code, ws_inbox, received>>
  /\ UNCHANGED <<attempted, trackerVars, dbVars, libVars>>

\* a frame that arrived before the close is read on a refused connection:
\* its websocket has no connection_id and handle_client_message returns
\* (293-295)
SecMessageUnregistered(c) ==
  /\ ws_pc[c] = "rejected"
  /\ received < MaxMessages
  /\ received' = received + 1
  /\ UNCHANGED <<clients, connection_info, tracking_task,
                 connection_attempts, message_counts, active_connections,
                 current_time, ws_pc, remote_address, ws_open, close_code, ws_inbox>>
  /\ UNCHANGED <<attempted, trackerVars, dbVars, libVars>>

SecRejectedEnd_Decrements(c) ==
  /\ ws_pc[c] = "rejected"
  /\ active_connections' = connection_closed(remote_address[c])
  /\ SlotFree(c, "idle")
  /\ UNCHANGED <<clients, connection_info, tracking_task, message_counts,
                 connection_attempts, current_time, received>>
  /\ UNCHANGED <<attempted, trackerVars, dbVars, libVars>>

\* the receive loop of a refused connection ends: the finally block
SecRejectedEnd(c) ==
  /\ ws_pc[c] = "rejected"
  /\ unregister(c, message_counts)
  /\ UNCHANGED <<connection_attempts, current_time, received>>
  /\ UNCHANGED <<attempted, trackerVars, dbVars, libVars>>

\* one turn of track_aircraft (364-410) up to its sleep: the throttle
\* grants the request, and `await fetch_state_vectors(bbox)` raises a
\* TypeError, because backend/opensky_client.py's fetch_state_vectors
\* (482-495) is an ordinary function returning a list; the inner handler
\* (376-379) logs it and sleeps.  process_aircraft and send_to_all are
\* therefore never reached.
SecTrackAircraft ==
  /\ tracking_task.pc \in {"new", "sleep"}
  /\ ~tracking_task.cancelled
  /\ tracking_task' = [tracking_task EXCEPT !.pc = "sleep"]
  /\ UNCHANGED <<clients, connection_info, connection_attempts,
                 message_counts, active_connections, current_time, ws_pc,
                 remote_address, ws_open, close_code, ws_inbox, received>>
  /\ UNCHANGED <<attempted, trackerVars, dbVars, libVars>>

\* the cancelled task ends (403-405, or before its first step); the
\* handlers awaiting it in stop_tracking become runnable
SecTrackCancelled ==
  /\ tracking_task.pc \in {"new", "sleep"}
  /\ tracking_task.cancelled
  /\ tracking_task' = [tracking_task EXCEPT !.pc = "done"]
  /\ ws_pc' = [c \in Connections |->
                 IF ws_pc[c] = "stopping" THEN "wake" ELSE ws_pc[c]]
  /\ UNCHANGED <<clients, connection_info, connection_attempts,
                 message_counts, active_connections, current_time,
                 remote_address, ws_open, close_code, ws_inbox, received>>
  /\ UNCHANGED <<attempted, trackerVars, dbVars, libVars>>

\* time passes
SecTick ==
  /\ current_time < MaxTime
  /\ current_time' = current_time + 1
  /\ UNCHANGED <<clients, connection_info, tracking_task,
                 connection_attempts, message_counts, active_connections,
                 ws_pc, remote_address, ws_open, close_code, ws_inbox,
                 received>>
  /\ UNCHANGED <<attempted, trackerVars, dbVars, libVars>>

\* RateLimiter._cleanup_old_data (122-146), run by _cleanup_loop (113-120)
RateLimiterCleanup ==
  /\ connection_attempts' = [ip \in Ips |->
       Prune(connection_attempts[ip], current_time - connection_window)]
  /\ message_counts' = [c \in Connections |->
       Prune(message_counts[c], current_time - message_window)]
  /\ UNCHANGED <<clients, connection_info, tracking_task,
                 active_connections, current_time, ws_pc, remote_address, ws_open,
                 close_code, ws_inbox, received>>
  /\ UNCHANGED <<attempted, trackerVars, dbVars, libVars>>

NextSecure ==
  \/ \E c \in Connections, ip \in Ips : SecRegister(c, ip)
  \/ \E c \in Connections : SecPeerClose(c)
  \/ \E c \in Connections, kind \in ClientMessageKinds :
       SecHandleMessage(c, kind)
  \/ \E c \in Connections : SecDisconnect(c)
  \/ \E c \in Connections : SecStopped(c)
  \/ \E c \in Connections : SecCloseDone(c)
  \/ \E c \in Connections : SecMessageUnregistered(c)
  \/ \E c \in Connections : SecRejectedEnd(c)
  \/ SecTrackAircraft
  \/ SecTrackCancelled
  \/ SecTick
  \/ RateLimiterCleanup

SpecSecure == Init /\ [][NextSecure]_vars

\* =================================================================
\* Part 5: the outbound throttle, backend/rate_limiter.py
\* (class ConnectionThrottler).  Callers are asyncio tasks of one event
\* loop; asyncio.Lock is not reentrant.
\* =================================================================

\* a caller calls acquire (268) and reaches `async with self._lock`; calls
\* begin early enough for every sleep to end before the clock stops
ThrAcquire(k) ==
  /\ thr_pc[k] = "idle"
  /\ thr_calls < MaxThrCalls
  /\ thr_now + TicksPerMinute <= MaxThrTime
  /\ thr_calls' = thr_calls + 1
  /\ thr_pc' = [thr_pc EXCEPT ![k] = "lock"]
  /\ UNCHANGED <<request_times, thr_lock, thr_wake, thr_now>>
  /\ UNCHANGED nonThrVars

\* asyncio.Lock: free for nobody while somebody, the caller included, holds it
ThrLockFree(k) == thr_lock = None

\* the caller gets the lock and runs the body of acquire (273-291) up to
\* its sleep or its return
ThrEnter(k) ==
  /\ thr_pc[k] = "lock"
  /\ ThrLockFree(k)
  /\ LET times == Prune(request_times, thr_now - TicksPerMinute)
         wait_time == TicksPerMinute - (thr_now - times[1])
     IN  IF Len(times) >= requests_per_minute /\ wait_time > 0
         THEN /\ request_times' = times
              /\ thr_lock' = k
              /\ thr_wake' = [thr_wake EXCEPT ![k] = thr_now + wait_time]
              /\ thr_pc' = [thr_pc EXCEPT ![k] = "sleep"]
         ELSE /\ request_times' = Append(times, thr_now)
              /\ thr_lock' = None
              /\ thr_pc' = [thr_pc EXCEPT ![k] = "idle"]
              /\ UNCHANGED thr_wake
  /\ UNCHANGED <<thr_now, thr_calls>>
  /\ UNCHANGED nonThrVars

\* the sleep ends and the caller, still inside `async with self._lock`,
\* calls acquire again (287-288): it reaches `async with self._lock`
ThrWake(k) ==
  /\ thr_pc[k] = "sleep"
  /\ thr_now >= thr_wake[k]
  /\ thr_pc' = [thr_pc EXCEPT ![k] = "lock"]
  /\ UNCHANGED <<request_times, thr_lock, thr_wake, thr_now, thr_calls>>
  /\ UNCHANGED nonThrVars

\* time passes
ThrTick ==
  /\ thr_now < MaxThrTime
  /\ thr_now' = thr_now + 1
  /\ UNCHANGED <<request_times, thr_lock, thr_pc, thr_wake, thr_calls>>
  /\ UNCHANGED nonThrVars

NextThrottle ==
  \/ \E k \in ThrCallers : ThrAcquire(k)
  \/ \E k \in ThrCallers : ThrEnter(k)
  \/ \E k \in ThrCallers : ThrWake(k)
  \/ ThrTick

\* every task that can run does run, and time passes
ThrFairness ==
  /\ \A k \in ThrCallers : WF_vars(ThrEnter(k)) /\ WF_vars(ThrWake(k))
  /\ WF_vars(ThrTick)

SpecThrottle == Init /\ [][NextThrottle]_vars /\ ThrFairness

\* =================================================================
\* Part 6: the database connection pool, backend/db_pool.py (class
\* ConnectionPool).  Its users are threads; queue.Queue is thread-safe and
\* threading.Lock is not reentrant.
\* =================================================================

\* ConnectionPool._close_connection (94-109) run by thread th on
\* connection c: the connection is closed at once (98), the counter is
\* decremented under the lock (104-105), for which the thread may have to
\* wait at position waiting; otherwise it goes on at position next
CloseConnection(th, c, waiting, next) ==
  /\ conn_state' = [conn_state EXCEPT ![c] = "closed"]
  /\ IF pool_lock = None
     THEN /\ pool_active' = pool_active - 1
          /\ pool_pc' = [pool_pc EXCEPT ![th] = next]
     ELSE /\ pool_pc' = [pool_pc EXCEPT ![th] = waiting]
          /\ UNCHANGED pool_active

\* a thread enters get_connection (119-123)
PoolCall(th) ==
  /\ pool_pc[th] = "idle"
  /\ pool_calls < MaxPoolCalls
  /\ pool_calls' = pool_calls + 1
  /\ pool_waited' = [pool_waited EXCEPT ![th] = 0]
  /\ pool_pc' = [pool_pc EXCEPT ![th] =
                   IF pool_closed THEN "idle" ELSE "get"]
  /\ UNCHANGED <<pool_queue, pool_active, pool_lock, pool_closed,
                 conn_state, conn_expired, pool_conn, closer_pc>>
  /\ UNCHANGED nonPoolVars

\* self._pool.get returns a connection (129-139, 153-157); dead says
\* whether `SELECT 1` raises sqlite3.Error on it
PoolTake(th, dead) ==
  /\ pool_pc[th] = "get"
  /\ pool_queue # <<>>
  /\ LET c == Head(pool_queue)
     IN  /\ pool_queue' = Tail(pool_queue)
         /\ IF conn_expired[c] \/ dead
            THEN /\ CloseConnection(th, c, "dec_get", "get")
                 /\ UNCHANGED pool_conn
            ELSE /\ pool_conn' = [pool_conn EXCEPT ![th] = c]
                 /\ pool_pc' = [pool_pc EXCEPT ![th] = "using"]
                 /\ UNCHANGED <<conn_state, pool_active>>
  /\ UNCHANGED <<pool_lock, pool_closed, conn_expired, pool_waited,
                 pool_calls, closer_pc>>
  /\ UNCHANGED nonPoolVars

\* self._pool.get(timeout=1.0) raises queue.Empty after its second (129,
\* 141) and the thread reaches `with self._lock` (143)
PoolEmpty(th) ==
  /\ pool_pc[th] = "get"
  /\ pool_queue = <<>>
  /\ pool_waited' = [pool_waited EXCEPT ![th] = @ + 1]
  /\ pool_pc' = [pool_pc EXCEPT ![th] = "empty_lock"]
  /\ UNCHANGED <<pool_queue, pool_active, pool_lock, pool_closed,
                 conn_state, conn_expired, pool_conn, pool_calls, closer_pc>>
  /\ UNCHANGED nonPoolVars

\* the timeout check of get_connection (150-151) and, on a timeout, its
\* finally block with conn = None
AfterTimeoutCheck(th) ==
  IF pool_waited[th] > connection_timeout THEN "idle" ELSE "get"

PoolLocked_NoLimit(th, connect_ok) ==
  /\ pool_pc[th] = "empty_lock"
  /\ \E c \in PoolConns :
       /\ conn_state[c] = "none"
       /\ conn_state' = [conn_state EXCEPT ![c] = "open"]
  /\ pool_pc' = [pool_pc EXCEPT ![th] = "get"]
  /\ UNCHANGED <<pool_queue, pool_active, pool_lock, pool_closed,
                 conn_expired, pool_conn, pool_waited, pool_calls, closer_pc>>
  /\ UNCHANGED nonPoolVars

\* a thread waiting for self._lock gets it.  At 143 it makes a connection
\* if the pool may grow (144-147): connect_ok says whether sqlite3.connect
\* and the PRAGMAs succeed (65-73, 84-86); if they do, _create_connection
\* reaches its own `with self._lock` (79) with the lock of 143 still held.
\* At 79 it counts the connection and get_connection yields it.  At 104
\* it counts a closed connection off.
PoolLocked(th, connect_ok) ==
  /\ pool_pc[th] \in {"empty_lock", "create_lock", "dec_get", "dec_idle"}
  /\ pool_lock = None
  /\ CASE pool_pc[th] = "empty_lock" ->
            IF pool_active < max_connections /\ connect_ok
            THEN LET c == CHOOSE x \in PoolConns :
                            /\ conn_state[x] = "none"
                            /\ \A y \in PoolConns :
                                 conn_state[y] = "none" => x <= y
                 IN  /\ conn_state' = [conn_state EXCEPT ![c] = "open"]
                     /\ pool_conn' = [pool_conn EXCEPT ![th] = c]
                     /\ pool_lock' = th
                     /\ pool_pc' = [pool_pc EXCEPT ![th] = "create_lock"]
                     /\ UNCHANGED pool_active
            ELSE /\ pool_pc' = [pool_pc EXCEPT ![th] = AfterTimeoutCheck(th)]
                 /\ UNCHANGED <<conn_state, pool_conn, pool_lock,
                                pool_active>>
       [] pool_pc[th] = "create_lock" ->
            /\ pool_active' = pool_active + 1
            /\ pool_pc' = [pool_pc EXCEPT ![th] = "using"]
            /\ UNCHANGED <<conn_state, pool_conn, pool_lock>>
       [] pool_pc[th] = "dec_get" ->
            /\ pool_active' = pool_active - 1
            /\ pool_pc' = [pool_pc EXCEPT ![th] = "get"]
            /\ UNCHANGED <<conn_state, pool_conn, pool_lock>>
       [] pool_pc[th] = "dec_idle" ->
            /\ pool_active' = pool_active - 1
            /\ pool_pc' = [pool_pc EXCEPT ![th] = "idle"]
            /\ UNCHANGED <<conn_state, pool_conn, pool_lock>>
  /\ UNCHANGED <<pool_queue, pool_closed, conn_expired, pool_waited,
                 pool_calls, closer_pc>>
  /\ UNCHANGED nonPoolVars

\* the user of a connection finishes, with or without an exception: the
\* finally block of get_connection (161-168)
PoolRelease(th) ==
  /\ pool_pc[th] = "using"
  /\ LET c == pool_conn[th]
     IN  IF ~pool_closed
         THEN IF Len(pool_queue) < max_connections
              THEN /\ pool_queue' = Append(pool_queue, c)
                   /\ pool_pc' = [pool_pc EXCEPT ![th] = "idle"]
                   /\ UNCHANGED <<conn_state, pool_active>>
              ELSE /\ CloseConnection(th, c, "dec_idle", "idle")
                   /\ UNCHANGED pool_queue
         ELSE /\ pool_pc' = [pool_pc EXCEPT ![th] = "idle"]
              /\ UNCHANGED <<pool_queue, conn_state, pool_active>>
  /\ pool_conn' = [pool_conn EXCEPT ![th] = None]
  /\ UNCHANGED <<pool_lock, pool_closed, conn_expired, pool_waited,
                 pool_calls, closer_pc>>
  /\ UNCHANGED nonPoolVars

\* a connection becomes older than max_lifetime (88-92)
PoolExpire(c) ==
  /\ conn_state[c] = "open"
  /\ ~conn_expired[c]
  /\ conn_expired' = [conn_expired EXCEPT ![c] = TRUE]
  /\ UNCHANGED <<pool_queue, pool_active, pool_lock, pool_closed,
                 conn_state, pool_pc, pool_conn, pool_waited, pool_calls,
                 closer_pc>>
  /\ UNCHANGED nonPoolVars

\* close_all begins (172)
PoolCloseAll ==
  /\ closer_pc = "idle"
  /\ pool_closed' = TRUE
  /\ closer_pc' = "drain"
  /\ UNCHANGED <<pool_queue, pool_active, pool_lock, conn_state,
                 conn_expired, pool_pc, pool_conn, pool_waited, pool_calls>>
  /\ UNCHANGED nonPoolVars

\* one turn of the loop of close_all (175-180), or its end (182); in
\* _close_connection the connection is closed at once (98) and the counter
\* is decremented when the lock is free (104-105)
PoolDrain ==
  /\ closer_pc \in {"drain", "dec"}
  /\ IF closer_pc = "dec"
     THEN /\ pool_lock = None
          /\ pool_active' = pool_active - 1
          /\ closer_pc' = "drain"
          /\ UNCHANGED <<pool_queue, conn_state>>
     ELSE IF pool_queue = <<>>
     THEN /\ closer_pc' = "done"
          /\ UNCHANGED <<pool_queue, conn_state, pool_active>>
     ELSE /\ pool_queue' = Tail(pool_queue)
          /\ conn_state' = [conn_state EXCEPT ![Head(pool_queue)] = "closed"]
          /\ IF pool_lock = None
             THEN /\ pool_active' = pool_active - 1
                  /\ UNCHANGED closer_pc
             ELSE /\ closer_pc' = "dec"
                  /\ UNCHANGED pool_active
  /\ UNCHANGED <<pool_lock, pool_closed, conn_expired, pool_pc, pool_conn,
                 pool_waited, pool_calls>>
  /\ UNCHANGED nonPoolVars

NextPool ==
  \/ \E th \in PoolThreads : PoolCall(th)
  \/ \E th \in PoolThreads, dead \in BOOLEAN : PoolTake(th, dead)
  \/ \E th \in PoolThreads : PoolEmpty(th)
  \/ \E th \in PoolThreads, connect_ok \in BOOLEAN : PoolLocked(th, connect_ok)
  \/ \E th \in PoolThreads : PoolRelease(th)
  \/ \E c \in PoolConns : PoolExpire(c)
  \/ PoolCloseAll
  \/ PoolDrain

\* every thread that can run does run
PoolFairness ==
  /\ \A th \in PoolThreads :
       /\ WF_vars(\E dead \in BOOLEAN : PoolTake(th, dead))
       /\ WF_vars(PoolEmpty(th))
       /\ WF_vars(\E connect_ok \in BOOLEAN : PoolLocked(th, connect_ok))
  /\ WF_vars(PoolDrain)

SpecPool == Init /\ [][NextPool]_vars /\ PoolFairness

\* =================================================================
\* Part 7: the in-process cache, backend/aircraft_cache.py (classes
\* CacheEntry, LRUCache, AircraftCache).  Every method holds the cache's
\* lock from start to end, so each call is one step.
\* =================================================================

\* the position of key in the OrderedDict, or 0
IndexOf(seq, key) ==
  IF \E i \in DOMAIN seq : seq[i].key = key
  THEN CHOOSE i \in DOMAIN seq : seq[i].key = key
  ELSE 0

\* del self.cache[key]
Without(seq, key) == SelectSeq(seq, LAMBDA e : e.key # key)

IsExpired_Never(entry, time) == FALSE

\* CacheEntry.is_expired (27-29)
IsExpired(entry, time) == time > entry.expires_at

MoveToEnd_Stay(seq, key) == seq

\* OrderedDict.move_to_end(key), with CacheEntry.access counting the hit
\* (76, 79, 31-34)
MoveToEnd(seq, key) ==
  LET e == seq[IndexOf(seq, key)]
  IN  Append(Without(seq, key), [e EXCEPT !.hits = @ + 1])

\* CacheEntry.__init__ (21-25)
CacheEntry(key, ttl, time) ==
  [key |-> key, expires_at |-> time + ttl, created_at |-> time, hits |-> 0]

\* the loop of set (92-95): the entries that remain
RECURSIVE EvictOver(_)
EvictOver(seq) == IF Len(seq) > max_size THEN EvictOver(Tail(seq)) ELSE seq

\* LRUCache.get (59-79)
CacheGet(key) ==
  /\ cache_ops < MaxCacheOps
  /\ cache_ops' = cache_ops + 1
  /\ cache_reads' = cache_reads + 1
  /\ IF IndexOf(cache, key) = 0
     THEN /\ stats' = [stats EXCEPT !.misses = @ + 1]
          /\ cache_ret' = [hit |-> FALSE, key |-> key]
          /\ UNCHANGED <<cache, cache_used, removed_ttl>>
     ELSE IF IsExpired(cache[IndexOf(cache, key)], cache_now)
     THEN /\ cache' = Without(cache, key)
          /\ stats' = [stats EXCEPT !.expirations = @ + 1, !.misses = @ + 1]
          /\ cache_ret' = [hit |-> FALSE, key |-> key]
          /\ removed_ttl' = removed_ttl + 1
          /\ UNCHANGED cache_used
     ELSE /\ cache' = MoveToEnd(cache, key)
          /\ stats' = [stats EXCEPT !.hits = @ + 1]
          /\ cache_ret' = [hit |-> TRUE, key |-> key]
          /\ cache_used' = [cache_used EXCEPT ![key] = cache_ops']
          /\ UNCHANGED removed_ttl
  /\ UNCHANGED <<cache_now, removed_capacity>>
  /\ UNCHANGED nonCacheVars

\* LRUCache.set (81-95); `ttl or self.default_ttl` (89)
CacheSet(key, ttl) ==
  /\ cache_ops < MaxCacheOps
  /\ cache_ops' = cache_ops + 1
  /\ LET entry == CacheEntry(key, IF ttl # None THEN ttl ELSE default_ttl,
                             cache_now)
         added == Append(Without(cache, key), entry)
     IN  /\ cache' = EvictOver(added)
         /\ stats' = [stats EXCEPT !.evictions = @ + Len(added) - Len(cache')]
         /\ removed_capacity' = removed_capacity + Len(added) - Len(cache')
  /\ cache_used' = [cache_used EXCEPT ![key] = cache_ops']
  /\ UNCHANGED <<cache_now, cache_ret, cache_reads, removed_ttl>>
  /\ UNCHANGED nonCacheVars

\* LRUCache.clear (97-100)
CacheClear ==
  /\ cache # <<>>
  /\ cache' = <<>>
  /\ UNCHANGED <<stats, cache_now, cache_ret, cache_ops, cache_used,
                 cache_reads, removed_capacity, removed_ttl>>
  /\ UNCHANGED nonCacheVars

\* AircraftCache.invalidate_aircraft (214-231), for one cache
CacheInvalidate(key) ==
  /\ IndexOf(cache, key) # 0
  /\ cache' = Without(cache, key)
  /\ UNCHANGED <<stats, cache_now, cache_ret, cache_ops, cache_used,
                 cache_reads, removed_capacity, removed_ttl>>
  /\ UNCHANGED nonCacheVars

\* AircraftCache.cleanup_expired (244-267), for one cache
CacheCleanupExpired ==
  /\ cache' = SelectSeq(cache, LAMBDA e : ~IsExpired(e, cache_now))
  /\ removed_ttl' = removed_ttl + Len(cache) - Len(cache')
  /\ UNCHANGED <<stats, cache_now, cache_ret, cache_ops, cache_used,
                 cache_reads, removed_capacity>>
  /\ UNCHANGED nonCacheVars

\* time passes
CacheTick ==
  /\ cache_now < MaxCacheTime
  /\ cache_now' = cache_now + 1
  /\ UNCHANGED <<cache, stats, cache_ret, cache_ops, cache_used,
                 cache_reads, removed_capacity, removed_ttl>>
  /\ UNCHANGED nonCacheVars

NextCache ==
  \/ \E key \in CacheKeys : CacheGet(key)
  \/ \E key \in CacheKeys, ttl \in CacheTtls : CacheSet(key, ttl)
  \/ CacheClear
  \/ \E key \in CacheKeys : CacheInvalidate(key)
  \/ CacheCleanupExpired
  \/ CacheTick

SpecCache == Init /\ [][NextCache]_vars

\* =================================================================
\* Part 8: authentication, backend/auth.py (class AuthManager, the module's
\* instance auth_manager and the decorator require_auth).
\*
\* require_auth (177-233) is applied to no handler anywhere in the
\* repository and backend/server.py does not import backend.auth:
\* websockets.serve is given AircraftTracker.handle_client itself, so a
\* connection is handled by HandleClientConnect whatever the manager's
\* configuration is.
\* =================================================================

\* AuthManager.is_enabled (40-42)
IsEnabled(cfg) ==
  cfg.auth_enabled /\ cfg.auth_username # "" /\ cfg.auth_password_hash # ""

\* AuthManager.verify_credentials (44-51)
VerifyCredentials(cfg, username, password) ==
  IF ~IsEnabled(cfg)
  THEN TRUE
  ELSE /\ username = cfg.auth_username
       /\ HashPassword(password) = cfg.auth_password_hash

\* AuthManager._cleanup_expired_tokens (100-108)
CleanupExpiredTokens(tokens, time) ==
  [t \in TokenIds |->
     IF tokens[t] # NoToken /\ time >= tokens[t].expires
     THEN NoToken ELSE tokens[t]]

\* secrets.token_urlsafe(32) (71): an id that was never handed out
FreshToken ==
  CHOOSE t \in TokenIds :
    /\ auth_expiry[t] = None
    /\ \A u \in TokenIds : u < t => auth_expiry[u] # None

\* AuthManager.__init__ (26-32), run when backend.auth is imported (174),
\* with the environment's AUTH_ENABLED, AUTH_USERNAME and AUTH_PASSWORD
AuthConfigure(enabled, username, password) ==
  /\ ~auth_cfg.configured
  /\ auth_cfg' = [configured |-> TRUE, auth_enabled |-> enabled,
                  auth_username |-> username,
                  auth_password_hash |-> HashPassword(password)]
  /\ valid_tokens' = [t \in TokenIds |-> NoToken]
  /\ UNCHANGED <<auth_now, auth_ret, auth_expiry>>
  /\ UNCHANGED nonAuthVars

\* AuthManager.handle_auth_message with an auth_login message (110-146),
\* generate_token (53-82) included
AuthLogin(username, password) ==
  /\ auth_cfg.configured
  /\ IF ~IsEnabled(auth_cfg)
     THEN /\ auth_ret' = [op |-> "login", success |-> TRUE, token |-> None,
                          payload |-> NoPayload]
          /\ UNCHANGED <<valid_tokens, auth_expiry>>
     ELSE IF VerifyCredentials(auth_cfg, username, password)
     THEN /\ \E t \in TokenIds : auth_expiry[t] = None
          /\ LET stored == [username |-> username, timestamp |-> auth_now,
                            expires |-> auth_now + token_expiry]
             IN  /\ valid_tokens' =
                      CleanupExpiredTokens(
                        [valid_tokens EXCEPT ![FreshToken] = stored], auth_now)
                 /\ auth_expiry' =
                      [auth_expiry EXCEPT ![FreshToken] = stored.expires]
                 /\ auth_ret' = [op |-> "login", success |-> TRUE,
                                 token |-> FreshToken, payload |-> NoPayload]
     ELSE /\ auth_ret' = [op |-> "login", success |-> FALSE, token |-> None,
                          payload |-> NoPayload]
          /\ UNCHANGED <<valid_tokens, auth_expiry>>
  /\ UNCHANGED <<auth_cfg, auth_now>>
  /\ UNCHANGED nonAuthVars

\* AuthManager.verify_token (84-98)
AuthVerifyToken(token) ==
  /\ auth_cfg.configured
  /\ IF ~IsEnabled(auth_cfg)
     THEN /\ auth_ret' = [op |-> "verify", success |-> TRUE, token |-> token,
                          payload |-> Anonymous]
          /\ UNCHANGED valid_tokens
     ELSE /\ valid_tokens' = CleanupExpiredTokens(valid_tokens, auth_now)
          /\ IF /\ valid_tokens'[token] # NoToken
                /\ auth_now < valid_tokens'[token].expires
             THEN auth_ret' =
                    [op |-> "verify", success |-> TRUE, token |-> token,
                     payload |->
                       [username |-> valid_tokens'[token].username,
                        timestamp |-> valid_tokens'[token].timestamp]]
             ELSE auth_ret' =
                    [op |-> "verify", success |-> FALSE, token |-> token,
                     payload |-> NoPayload]
  /\ UNCHANGED <<auth_cfg, auth_now, auth_expiry>>
  /\ UNCHANGED nonAuthVars

\* time passes
AuthTick ==
  /\ auth_now < MaxAuthTime
  /\ auth_now' = auth_now + 1
  /\ UNCHANGED <<auth_cfg, valid_tokens, auth_ret, auth_expiry>>
  /\ UNCHANGED nonAuthVars

\* the manager, and the tracker server accepting connections beside it
NextAuth ==
  \/ \E enabled \in BOOLEAN, username \in EnvUsernames,
        password \in EnvPasswords :
       AuthConfigure(enabled, username, password)
  \/ \E username \in Usernames, password \in Passwords :
       AuthLogin(username, password)
  \/ \E token \in TokenIds : AuthVerifyToken(token)
  \/ AuthTick
  \/ \E c \in Sockets : HandleClientConnect(c)
  \/ \E c \in Sockets : HandleClientInitial(c)
  \/ \E c \in Sockets : SocketClose(c)

SpecAuth == Init /\ [][NextAuth]_vars

\* =================================================================
\* Part 9: the type resolver, backend/core/aircraft_type_resolver.py
\* (resolve_aircraft_type, 131-268), for one ICAO24.
\*
\* db.log_unidentified_aircraft (200, 242, 266) is a method that class
\* AircraftDatabase (backend/database/db.py) does not have: every call of
\* it raises AttributeError.
\* =================================================================

\* simplify_aircraft_type (51-128) on the answers above: the mapping table
\* (pattern 737), the Boeing branch, then the combinations; "" is None
SimplifyAircraftType(manufacturer, type_name) ==
  IF type_name = "737" \/ manufacturer = "737" THEN "Boeing 737"
  ELSE IF manufacturer = "Boeing"
  THEN (IF type_name # "" THEN "Boeing " \o type_name ELSE "Boeing Aircraft")
  ELSE IF manufacturer # "" /\ type_name # ""
  THEN manufacturer \o " " \o type_name
  ELSE IF manufacturer # "" THEN manufacturer \o " Aircraft"
  ELSE type_name

\* should_log_as_unidentified (33-48); of the types that arise here, the
\* ones with a generic ending are in the list already
ShouldLogAsUnidentified(aircraft_type) ==
  aircraft_type = "" \/ aircraft_type \in GENERIC_AIRCRAFT_TYPES

\* the test of the cached row (170-173)
CacheUsable(row) ==
  /\ row # NoRow
  /\ row # ""
  /\ row # PlaceholderType
  /\ row # "Unknown Aircraft"

\* planespotters_type.split(' ', 1) (223-227) and the simplification
PlanespottersFinalType(text) ==
  LET simplified ==
        IF text = "Boeing 737" THEN SimplifyAircraftType("Boeing", "737")
        ELSE SimplifyAircraftType("", text)
  IN  IF simplified # "" THEN simplified ELSE text

\* another component stores the aircraft's row (save_aircraft_to_cache)
ResRowWritten(type) ==
  /\ aircraft_row # type
  /\ aircraft_row' = type
  /\ UNCHANGED <<res_pc, res_in, res_calls, res_accepted, res_result,
                 res_runs>>
  /\ UNCHANGED nonResVars

\* resolve_aircraft_type is called (131-166); hexdb and planespotters are
\* what the two remote sources would answer during the call
ResolveCall(hexdb, planespotters) ==
  /\ res_pc = "idle"
  /\ res_runs < MaxResolves
  /\ res_runs' = res_runs + 1
  /\ res_pc' = "cache"
  /\ res_in' = [hexdb |-> hexdb, planespotters |-> planespotters]
  /\ res_calls' = <<>>
  /\ res_accepted' = "none"
  /\ res_result' = NoType
  /\ UNCHANGED aircraft_row
  /\ UNCHANGED nonResVars

\* step 1 (168-175): the cached row
ResolveCache ==
  /\ res_pc = "cache"
  /\ res_calls' = Append(res_calls, "cache")
  /\ IF CacheUsable(aircraft_row)
     THEN /\ res_accepted' = "cache"
          /\ res_result' = aircraft_row
          /\ res_pc' = "idle"
     ELSE /\ res_pc' = "hexdb"
          /\ UNCHANGED <<res_accepted, res_result>>
  /\ UNCHANGED <<res_in, aircraft_row, res_runs>>
  /\ UNCHANGED nonResVars

\* step 2 (177-214): hexdb; every exception raised inside the try block,
\* also after the type was found, is caught at 213 and step 3 follows
ResolveHexdb(save_ok) ==
  /\ res_pc = "hexdb"
  /\ res_calls' = Append(res_calls, "hexdb")
  /\ LET details == res_in.hexdb
         simplified_type ==
           SimplifyAircraftType(details.Manufacturer, details.Type)
     IN  IF details.found /\ details.has_manufacturer /\ simplified_type # ""
         THEN /\ res_accepted' = "hexdb"
              /\ IF ShouldLogAsUnidentified(simplified_type) \/ ~save_ok
                 THEN /\ res_pc' = "planespotters"
                      /\ UNCHANGED <<res_result, aircraft_row>>
                 ELSE /\ aircraft_row' = simplified_type
                      /\ res_result' = simplified_type
                      /\ res_pc' = "idle"
         ELSE /\ res_pc' = "planespotters"
              /\ UNCHANGED <<res_accepted, res_result, aircraft_row>>
  /\ UNCHANGED <<res_in, res_runs>>
  /\ UNCHANGED nonResVars

\* step 3 (216-256): Planespotters, with the same try block (255)
ResolvePlanespotters(save_ok) ==
  /\ res_pc = "planespotters"
  /\ res_calls' = Append(res_calls, "planespotters")
  /\ LET planespotters_type == res_in.planespotters
         final_type == PlanespottersFinalType(planespotters_type)
     IN  IF planespotters_type # ""
         THEN /\ res_accepted' =
                   IF res_accepted = "none" THEN "planespotters"
                   ELSE res_accepted
              /\ IF ShouldLogAsUnidentified(final_type) \/ ~save_ok
                 THEN /\ res_pc' = "fallback"
                      /\ UNCHANGED <<res_result, aircraft_row>>
                 ELSE /\ aircraft_row' = final_type
                      /\ res_result' = final_type
                      /\ res_pc' = "idle"
         ELSE /\ res_pc' = "fallback"
              /\ UNCHANGED <<res_accepted, res_result, aircraft_row>>
  /\ UNCHANGED <<res_in, res_runs>>
  /\ UNCHANGED nonResVars

\* step 4 (258-268): db.log_unidentified_aircraft raises before the return
ResolveFallback ==
  /\ res_pc = "fallback"
  /\ res_result' = Raised
  /\ res_pc' = "idle"
  /\ UNCHANGED <<res_in, res_calls, res_accepted, aircraft_row, res_runs>>
  /\ UNCHANGED nonResVars

NextResolver ==
  \/ \E type \in OtherTypes : ResRowWritten(type)
  \/ \E hexdb \in HexdbAnswers, planespotters \in PlanespottersAnswers :
       ResolveCall(hexdb, planespotters)
  \/ ResolveCache
  \/ \E save_ok \in BOOLEAN : ResolveHexdb(save_ok)
  \/ \E save_ok \in BOOLEAN : ResolvePlanespotters(save_ok)
  \/ ResolveFallback

SpecResolver == Init /\ [][NextResolver]_vars

\* =================================================================
\* Properties of the tracker server (checked under Spec)
\* =================================================================

PollingRunning == ActiveTasks # {}

\* a handler between adding its socket and its start check (lines 421-446),
\* or inside its finally block waiting for the cancelled task (494-507)
InConnectOrDisconnectStep(c) == pc[c] \in {"initial", "start", "stopping"}

\* C1: whenever no connection handler is in the middle of its connect or
\* disconnect step, the polling loop is running if and only if at least one
\* client is in the connected set.
C1_PollingIffConnected ==
  (\A c \in Sockets : ~InConnectOrDisconnectStep(c))
    => (PollingRunning <=> connected_clients # {})

\* C2: once a client's handler has been through its connect step (it is in
\* its receive loop, its socket in the connected set), the polling loop has
\* been started -- also when several handlers connect at nearly the same
\* time (here: every socket in the set belongs to a handler that is alive).
C2_StartedAfterConnect ==
  \A c \in Sockets :
    (/\ pc[c] = "serving"
     /\ c \in connected_clients
     /\ \A d \in connected_clients : pc[d] \in {"initial", "start", "serving"})
      => PollingRunning

\* C3: at most one polling loop is active at any time, including when a new
\* client connects while the cancellation of the previous loop is still
\* being awaited.
C3_AtMostOnePollingLoop == Cardinality(ActiveTasks) <= 1

\* C3 witness: a handler is still awaiting the task it cancelled, that task
\* has not finished, and a new client's handler has started a fresh loop
C3_Witness ==
  \E c \in Sockets, t \in TaskIds :
    /\ pc[c] = "stopping"
    /\ awaiting[c] = t
    /\ tasks[t].pc # "done"
    /\ \E u \in TaskIds \ {t} : TaskActive(u)

\* C4: after polling has stopped (a polling task has finished) and every
\* earlier handler has ended, a client that has connected, is in its receive
\* loop and is the only member of the connected set has polling running
\* again -- whether the previous loop was cancelled by the disconnecting
\* handler or left its while loop on its own.
C4_ReconnectRestartsPolling ==
  \A c \in Sockets :
    (/\ pc[c] = "serving"
     /\ sockOpen[c]
     /\ connected_clients = {c}
     /\ \E t \in TaskIds : tasks[t].pc = "done"
     /\ \A d \in Sockets \ {c} : pc[d] \in {"idle", "done"})
      => PollingRunning

\* C5: every socket that was added to the connected set and whose handler
\* has ended (normally, abnormally, or by a failing send from the welcome
\* onward) is no longer in the connected set.
C5_EndedSocketRemoved ==
  \A c \in Sockets : pc[c] \in {"done", "crashed"} => c \notin connected_clients

\* the step in which task t leaves the broadcast it was suspended in
BroadcastEnds(t) ==
  /\ tasks[t].pc = "send"
  /\ ~tasks[t].cancelled
  /\ ~(/\ tasks'[t].pc = "send"
       /\ tasks'[t].bkind = tasks[t].bkind
       /\ tasks'[t].iter = tasks[t].iter)

\* C6: when a broadcast ends, every socket that was connected when it began
\* and is still in the set has been sent the message successfully: the
\* sockets whose send failed are removed, and delivery to the others is not
\* aborted, even when clients connect or disconnect meanwhile.
C6_BroadcastReachesAll ==
  [][\A t \in TaskIds :
       BroadcastEnds(t) =>
         \A c \in tasks[t].snap \cap connected_clients' :
           c \in tasks[t].visited \ tasks[t].failed]_vars

\* C7: every client sees aircraft updates in the order in which they were
\* produced: never the update of a later iteration before that of an
\* earlier one, the replay on connect included.
C7_UpdatesInOrder ==
  \A c \in Sockets :
    \A i, j \in DOMAIN inbox[c] :
      (/\ i < j
       /\ inbox[c][i].type = "aircraft_update"
       /\ inbox[c][j].type = "aircraft_update")
        => inbox[c][i].id <= inbox[c][j].id

\* C8: an exception inside one polling iteration never ends the polling
\* loop: the step in which it is raised leaves the task asleep until the
\* next interval with is_polling still set, and a polling task only ever
\* ends through cancellation.
C8_ExceptionKeepsPolling ==
  [][\A t \in TaskIds :
       /\ (tasks'[t].raised > tasks[t].raised)
            => /\ tasks'[t].pc = "sleep"
               /\ ~tasks'[t].cancelled
               /\ is_polling'
       /\ (tasks[t].pc # "done" /\ tasks'[t].pc = "done")
            => tasks[t].cancelled]_vars

\* C8 witness: a task that caught an exception in one iteration has gone on
\* to a later iteration
C8_Witness ==
  \E t \in TaskIds :
    /\ TaskActive(t)
    /\ tasks[t].raised # 0
    /\ tasks[t].iter > tasks[t].raised

\* the step in which task t finishes an iteration and goes to sleep
IterationCompletes(t) ==
  /\ tasks'[t].pc = "sleep"
  /\ tasks[t].pc = "send" \/ tasks'[t].iter # tasks[t].iter

\* C9: whenever a poll iteration that did not throw finds no visible
\* aircraft while an update is remembered, the remembered update is cleared
\* by the end of the iteration (so a later client is sent "searching") --
\* for every way of having no visible aircraft, an empty fetch included.
C9_NoVisibleClearsLast ==
  [][\A t \in TaskIds :
       (/\ IterationCompletes(t)
        /\ tasks'[t].raised # tasks'[t].iter
        /\ tasks'[t].visible = {}
        /\ last_aircraft_data # None)
         => last_aircraft_data' = None]_vars

\* frames answering a client request
IsResponse(m) == m.type \in ResponseTypes

C11_WrittenAtMostOnce == \A a \in Icaos : logbook[a] <= 1

\* C11 witness: every client left and the first polling task ended; a
\* second task is in the second poll cycle, in which aircraft a is visible
\* again after having been visible and written in the first cycle
C11_Witness ==
  \E a \in Icaos, t \in TaskIds \ {1} :
    /\ tasks[1].pc = "done"
    /\ tasks[t].pc = "send" /\ tasks[t].iter = 2
    /\ a \in tasks[t].visible
    /\ visible_aircraft = {a}
    /\ last_aircraft_data = 1
    /\ logbook[a] = 1

\* C12: an aircraft is marked (added to the session's set of aircraft that
\* will not be submitted again) only in a step in which its logbook write
\* succeeded; a failed write leaves it unmarked so that its next sighting
\* submits it again.
C12_MarkedOnlyAfterWrite ==
  [][\A a \in Icaos :
       (a \in visible_aircraft' /\ a \notin visible_aircraft)
         => logbook'[a] = logbook[a] + 1]_vars

\* the step in which task t runs the synchronous part of a poll cycle
PollCycleStep(t) == polls' = polls + 1 /\ tasks'[t].iter = polls'

\* C13: on the first poll cycle in which an aircraft is visible it gets
\* exactly one logbook write, and on every later cycle in which it is
\* visible it gets none.
C13_OneWriteOnFirstVisibleCycle ==
  [][\A t \in TaskIds : \A a \in Icaos :
       (PollCycleStep(t) /\ a \in tasks'[t].visible)
         => logbook'[a] = IF a \in visible_aircraft THEN logbook[a]
                                                    ELSE logbook[a] + 1]_vars

\* C14: no step of the polling loop writes an aircraft to the logbook whose
\* type was resolved as 'Unknown Aircraft' in that step.
C14_NoWriteForUnknownType ==
  [][\A t \in TaskIds : \A unknownTypes \in SUBSET Icaos :
       PollingLoopIteration(t, unknownTypes)
         => \A a \in unknownTypes : logbook'[a] = logbook[a]]_vars

\* =================================================================
\* Properties of the logbook table (checked under SpecDb)
\* =================================================================

\* the committed rows of one aircraft type
RowsOf(type) == {r \in db_rows : r.aircraft_type = type}

C16_ImageNeverCleared ==
  [][\A th \in DbThreads :
       (/\ db_pc[th] = "executed" /\ db_pc'[th] = "idle"
        /\ db_args[th].image \in {NoImage, ""})
         => \A r \in RowsOf(db_args[th].type) :
              (r.image_url # "" /\ r.image_url # SqlNull)
                => \E r2 \in db_rows' :
                     /\ r2.aircraft_type = r.aircraft_type
                     /\ r2.image_url = r.image_url]_vars

\* =================================================================
\* Properties of the rate-limited server (checked under SpecSecure)
\* =================================================================

\* the admitted connections of an IP whose handler has not yet seen them end
Admitted(ip) ==
  {c \in Connections : ws_pc[c] = "serving" /\ remote_address[c] = ip}

\* the attempts of an IP recorded within the window that ends now
InWindow(ip) ==
  Cardinality({i \in DOMAIN connection_attempts[ip] :
     connection_attempts[ip][i] >= current_time - connection_window})

\* the connection of slot c has just been refused
Refused(c) == ws_pc[c] = "closing"

\* C17: the connections of one IP admitted at the same time never number
\* more than max_connections_per_ip, and a connection arriving while the IP
\* is at that number is refused however many attempts its window still
\* allows.
C17_IpCapNeverExceeded ==
  /\ [](\A ip \in Ips : Cardinality(Admitted(ip)) <= max_connections_per_ip)
  /\ [][\A c \in Connections, ip \in Ips :
          SecRegister(c, ip)
          /\ Cardinality(Admitted(ip)) >= max_connections_per_ip
          => Refused(c)']_vars

\* a connection is refused while its IP is at the cap and the window of the
\* IP still has room
C17_Witness ==
  \E c \in Connections :
    /\ Refused(c)
    /\ Cardinality(Admitted(remote_address[c])) = max_connections_per_ip
    /\ InWindow(remote_address[c]) < connection_limit

C19_CounterCountsLiveConnections ==
  \A ip \in Ips :
    /\ active_connections[ip] = Cardinality(Admitted(ip))
    /\ active_connections[ip] >= 0

\* an IP connected and disconnected while another connection of the same IP
\* stays, or all of its connections have gone
C19_Witness ==
  \E ip \in Ips :
    /\ Len(connection_attempts[ip]) > 0
    /\ active_connections[ip] = 0
    /\ \E c \in Connections : ws_pc[c] \in {"stopping", "wake"}

\* the messages of a connection recorded within the window that ends now
MessagesInWindow(c) ==
  Cardinality({i \in DOMAIN message_counts[c] :
     message_counts[c][i] >= current_time - message_window})

\* C20: a refused connection is sent a close frame with code 1008, and a
\* message refused on a connection that is still open is answered with an
\* `error` frame.
C20_RejectionsVisible ==
  [][\A c \in Connections :
       /\ \A ip \in Ips :
            SecRegister(c, ip) /\ ws_pc'[c] # "serving"
            => close_code'[c] = 1008
       /\ \A kind \in ClientMessageKinds :
            SecHandleMessage(c, kind)
            /\ MessagesInWindow(c) >= message_limit
            /\ ws_open[c]
            => /\ Len(ws_inbox'[c]) = Len(ws_inbox[c]) + 1
               /\ ws_inbox'[c][Len(ws_inbox'[c])].type = "error"]_vars

\* one connection has been refused with 1008 while another has had a
\* message refused and answered
C20_Witness ==
  \E c, d \in Connections :
    /\ Refused(c)
    /\ close_code[c] = 1008
    /\ ws_pc[d] = "serving"
    /\ ws_inbox[d] # <<>>
    /\ ws_inbox[d][Len(ws_inbox[d])] = RateLimitError

\* =================================================================
\* Properties of the outbound throttle (checked under SpecThrottle)
\* =================================================================

\* C21: every call of acquire eventually returns, also when the bucket is
\* full and the caller has to sleep until the oldest recorded call ages out.
C21_AcquireReturns ==
  \A k \in ThrCallers : (thr_pc[k] # "idle") ~> (thr_pc[k] = "idle")

\* =================================================================
\* Properties of the connection pool (checked under SpecPool)
\* =================================================================

\* a thread is inside the acquisition part of get_connection
Acquiring(th) == pool_pc[th] \in {"get", "empty_lock", "create_lock", "dec_get"}

\* C22: every acquisition of a connection ends, by yielding a connection or
\* by failing, also when the pool is empty and a connection has to be made.
C22_AcquisitionTerminates ==
  \A th \in PoolThreads : Acquiring(th) ~> ~Acquiring(th)

\* a connection is in the pool's queue
Pooled(c) == \E i \in DOMAIN pool_queue : pool_queue[i] = c

\* C23: an open connection is always either in the pool or in the hands of
\* a thread: when its user has finished it has been put back or closed.
C23_ReleasedOrClosed ==
  \A c \in PoolConns :
    conn_state[c] = "open" =>
      Pooled(c) \/ \E th \in PoolThreads : pool_conn[th] = c

\* =================================================================
\* Properties of the cache (checked under SpecCache)
\* =================================================================

\* the keys the cache holds
Keys(seq) == {seq[i].key : i \in DOMAIN seq}

\* C24: a read of a key whose entry is past its expiry time returns nothing,
\* is counted as a miss and removes the entry; a read that returns the entry
\* found it present and not past its expiry time.
C24_ExpiredReadIsMiss ==
  [][\A key \in CacheKeys :
       CacheGet(key) =>
         LET i == IndexOf(cache, key)
         IN  /\ (i # 0 /\ cache_now > cache[i].expires_at) =>
                  /\ ~cache_ret'.hit
                  /\ key \notin Keys(cache')
                  /\ stats'.misses = stats.misses + 1
             /\ cache_ret'.hit =>
                  (i # 0 /\ cache_now <= cache[i].expires_at)]_vars

\* an entry was written, time passed its expiry, and it was read
C24_Witness ==
  /\ cache_ops = 2
  /\ ~cache_ret.hit
  /\ stats.expirations = 1
  /\ stats.misses = 1
  /\ cache = <<>>

\* the key in the cache whose last use (write or successful read) is oldest
LeastRecentlyUsed ==
  CHOOSE k \in Keys(cache) :
    \A j \in Keys(cache) : cache_used[k] <= cache_used[j]

\* C25: the cache never holds more than max_size entries; an insert of a new
\* key into a full cache removes exactly the least recently used key and
\* counts one eviction, and any other insert removes nothing.
C25_EvictsLeastRecentlyUsed ==
  /\ [](Len(cache) <= max_size)
  /\ [][\A key \in CacheKeys, ttl \in CacheTtls :
          CacheSet(key, ttl) =>
            IF key \notin Keys(cache) /\ Len(cache) = max_size
            THEN /\ Keys(cache') =
                      (Keys(cache) \ {LeastRecentlyUsed}) \cup {key}
                 /\ stats'.evictions = stats.evictions + 1
            ELSE /\ Keys(cache') = Keys(cache) \cup {key}
                 /\ stats'.evictions = stats.evictions]_vars

\* two keys were written, the first was read, and a third write evicted
\* the second
C25_Witness ==
  /\ stats.evictions = 1
  /\ stats.hits = 1
  /\ Len(cache) = max_size
  /\ \E k \in CacheKeys \ Keys(cache) : cache_used[k] = 2
  /\ \E j \in Keys(cache) : cache_used[j] = 3

\* C26: the counters of get_stats agree with the operations performed:
\* hits + misses is the number of reads, evictions the number of entries
\* removed for capacity, expirations the number of entries removed because
\* they had expired.
C26_StatsAgree ==
  /\ stats.hits + stats.misses = cache_reads
  /\ stats.evictions = removed_capacity
  /\ stats.expirations = removed_ttl

\* =================================================================
\* Properties of authentication (checked under SpecAuth)
\* =================================================================

\* C27: with authentication enabled, the first frame a new connection is
\* sent is auth_required (so neither the welcome nor tracking data comes
\* before the client has authenticated).
C27_AuthRequiredFirst ==
  [][\A c \in Sockets :
       (HandleClientConnect(c) /\ IsEnabled(auth_cfg) /\ sockOpen'[c]) =>
         Head(inbox'[c]).type = "auth_required"]_vars

\* C28: with AUTH_ENABLED set, verify_token returns a payload only for a
\* token id that was issued earlier and whose expiry time has not come.
C28_PayloadOnlyForLiveToken ==
  [][\A token \in TokenIds :
       (AuthVerifyToken(token) /\ auth_cfg.auth_enabled) =>
         (auth_ret'.payload # NoPayload =>
            /\ auth_expiry[token] # None
            /\ auth_now < auth_expiry[token])]_vars

\* C29: with AUTH_ENABLED set, a login succeeds only with the configured
\* user name and the configured password.
C29_OnlyConfiguredCredentials ==
  [][\A username \in Usernames, password \in Passwords :
       (AuthLogin(username, password) /\ auth_cfg.auth_enabled) =>
         (auth_ret'.success =>
            /\ username # ""
            /\ username = auth_cfg.auth_username
            /\ password # ""
            /\ HashPassword(password) = auth_cfg.auth_password_hash)]_vars

\* =================================================================
\* Properties of the type resolver (checked under SpecResolver)
\* =================================================================

\* C30: a call consults the sources in the order cache, hexdb,
\* Planespotters, and once a source has produced a type that the resolver
\* accepted, no later source is consulted.
C30_FixedOrderShortCircuit ==
  /\ Len(res_calls) <= Len(SourceOrder)
  /\ \A i \in DOMAIN res_calls : res_calls[i] = SourceOrder[i]
  /\ res_accepted # "none" =>
       /\ res_calls # <<>>
       /\ res_calls[Len(res_calls)] = res_accepted

\* =================================================================
\* Further properties of the connection pool (checked under SpecPool)
\* =================================================================

\* the connections that are open
OpenConnections == {c \in PoolConns : conn_state[c] = "open"}

\* C37: the number of open connections the pool has made never exceeds
\* max_connections.
C37_AtMostMaxConnections == Cardinality(OpenConnections) <= max_connections

\* a thread found the pool empty and made the last connection allowed
C37_Witness ==
  /\ Cardinality(OpenConnections) = max_connections
  /\ \E th \in PoolThreads :
       pool_pc[th] = "create_lock" /\ pool_conn[th] \in OpenConnections

\* =================================================================
\* Further properties of the rate-limited server (checked under SpecSecure)
\* =================================================================

\* C38: a refused connection attempt adds nothing to the attempt window of
\* any IP (what is left of the IP's window is the end of what it was) and
\* leaves every active-connection counter and message window as it was.
C38_RefusalChangesNoCounter ==
  [][\A c \in Connections, ip \in Ips :
       (SecRegister(c, ip) /\ Refused(c)') =>
         /\ active_connections' = active_connections
         /\ message_counts' = message_counts
         /\ \A other \in Ips \ {ip} :
              connection_attempts'[other] = connection_attempts[other]
         /\ \E k \in 0..Len(connection_attempts[ip]) :
              connection_attempts'[ip] =
                SubSeq(connection_attempts[ip], k + 1,
                       Len(connection_attempts[ip]))]_vars

\* an attempt was refused because the window of its IP was full; the
\* window holds the admitted attempts only
C38_Witness ==
  \E c \in Connections :
    /\ Refused(c)
    /\ attempted = connection_limit + 1
    /\ Len(connection_attempts[remote_address[c]]) = connection_limit
    /\ active_connections[remote_address[c]] = 0

\* C39: a refused connection is never in the client set, and the cleanup
\* at the end of its handler changes no active-connection counter, leaves
\* the client set alone and does not stop tracking.
C39_RefusedStaysOutside ==
  /\ [](\A c \in Connections :
          ws_pc[c] \in {"closing", "rejected"} => c \notin clients)
  /\ [][\A c \in Connections :
          SecRejectedEnd(c) =>
            /\ active_connections' = active_connections
            /\ clients' = clients
            /\ tracking_task' = tracking_task]_vars

\* of two attempts one was refused and its handler has ended, while the
\* admitted client is still served, counted once and tracked
C39_Witness ==
  \E d \in Connections :
    /\ attempted = 2
    /\ current_time = 0
    /\ ws_pc[d] = "serving"
    /\ clients = {d}
    /\ \A c \in Connections \ {d} : ws_pc[c] = "idle"
    /\ \A ip \in Ips :
         Len(connection_attempts[ip]) =
           IF ip = remote_address[d] THEN 1 ELSE 0
    /\ active_connections[remote_address[d]] = 1
    /\ tracking_task # NoTracking
    /\ ~tracking_task.cancelled

\* =================================================================
\* Part 10: the life cycle of the limiter's sweep, backend/rate_limiter.py
\* (RateLimiter.start 99-102, stop 104-111, _cleanup_loop 113-120),
\* beside connections that are admitted and refused.
\* =================================================================

\* RateLimiter.start (99-102): a task is made only if _cleanup_task is
\* falsy, and a Task object is never falsy
LimStart ==
  /\ ~lim_stopping
  /\ lim_calls < MaxLimCalls
  /\ lim_calls' = lim_calls + 1
  /\ cleanup_task' =
       IF cleanup_task = NoCleanupTask
       THEN [pc |-> "sleep", cancelled |-> FALSE]
       ELSE cleanup_task
  /\ lim_last' = "start"
  /\ UNCHANGED lim_stopping
  /\ UNCHANGED nonLimVars

\* RateLimiter.stop (104-111) up to its await: cancel() on a finished task
\* does nothing, and awaiting a finished task does not suspend
LimStop ==
  /\ ~lim_stopping
  /\ lim_calls < MaxLimCalls
  /\ lim_calls' = lim_calls + 1
  /\ lim_last' = "stop"
  /\ IF cleanup_task.pc = "sleep"
     THEN /\ cleanup_task' = [cleanup_task EXCEPT !.cancelled = TRUE]
          /\ lim_stopping' = TRUE
     ELSE UNCHANGED <<cleanup_task, lim_stopping>>
  /\ UNCHANGED nonLimVars

\* the cancelled task ends (119-120) and stop returns; _cleanup_task keeps
\* referring to the finished task
LimStopped ==
  /\ lim_stopping
  /\ cleanup_task' = [pc |-> "done", cancelled |-> FALSE]
  /\ lim_stopping' = FALSE
  /\ UNCHANGED <<lim_last, lim_calls>>
  /\ UNCHANGED nonLimVars

\* the task wakes from its sleep and sweeps (116-118)
LimSweep ==
  /\ cleanup_task.pc = "sleep"
  /\ ~cleanup_task.cancelled
  /\ RateLimiterCleanup

NextLimiter ==
  \/ LimStart
  \/ LimStop
  \/ LimStopped
  \/ LimSweep
  \/ \E c \in Connections, ip \in Ips : SecRegister(c, ip)
  \/ \E c \in Connections : SecCloseDone(c)
  \/ \E c \in Connections : SecRejectedEnd(c)
  \/ SecTick

SpecLimiter == Init /\ [][NextLimiter]_vars

\* =================================================================
\* Properties of the limiter's sweep (checked under SpecLimiter)
\* =================================================================

\* C40: whenever start is the call made last, the sweeping task exists and
\* is running, also when a stop came before that start.
C40_SweepRunsWhenStarted ==
  lim_last = "start" =>
    (cleanup_task.pc = "sleep" /\ ~cleanup_task.cancelled)

\* =================================================================
\* Further properties of the tracker server (checked under Spec)
\* =================================================================

\* frames that are not a well-formed request: not JSON, JSON of an
\* unexpected shape, and an object whose type is unknown
MalformedKinds == {"invalid_json", "not_object", "other"}

\* C33: when the handler has read a malformed frame on an open connection,
\* it is still serving that connection (its receive loop goes on, so later
\* requests are answered) and the socket is still among the connected
\* clients.
C33_MalformedInputNotFatal ==
  [][\A c \in Sockets, kind \in MalformedKinds :
       (HandleClientMessage(c, kind) /\ sockOpen[c]) =>
         (pc'[c] = "serving" /\ c \in connected_clients')]_vars

\* the parts of a reply's error text that come before an exception's text
ErrorPrefixes == {"", "Invalid message: ", "Invalid message: Invalid JSON: "}

\* the text holds the text of a library exception
HoldsExceptionText(text) ==
  \E prefix \in ErrorPrefixes : text = prefix \o JSONDecodeErrorText

\* C35: no message the server has sent to a client holds the raw text of
\* an exception.
C35_NoExceptionTextSent ==
  \A c \in Connections : \A i \in DOMAIN ws_inbox[c] :
    ~HoldsExceptionText(ws_inbox[c][i].error)

\* =================================================================
\* Part 11: the logbook write of backend/database/db_secure.py
\* (SecureAircraftDatabase.transaction 92-102, add_to_logbook 166-202).
\* Every thread has a connection of its own (_get_connection, 71-83);
\* SQLite admits one write transaction at a time.  DatabaseError (20) is a
\* subclass of Exception, not of sqlite3.Error.
\* =================================================================

\* what add_to_logbook's handler "except sqlite3.Error" (200-202) makes of
\* an exception that reaches it
AbsorbedBySqliteHandler(exception) ==
  IF exception = "sqlite3.Error" THEN "False" ELSE exception

\* what transaction's "except Exception" (99-102) makes of an exception
\* raised inside the with block: rollback, then raise DatabaseError
TransactionFailed(exception) == "DatabaseError"

\* a thread calls add_to_logbook (166-181): an empty type returns False;
\* entering transaction() calls _get_connection (94) outside its try block
SdbAddToLogbook(th, type, connect_ok) ==
  /\ sdb_pc[th] = "idle"
  /\ sdb_calls < MaxSdbCalls
  /\ sdb_calls' = sdb_calls + 1
  /\ sdb_type' = [sdb_type EXCEPT ![th] = type]
  /\ IF type = EmptyType
     THEN /\ sdb_result' = [sdb_result EXCEPT ![th] = "False"]
          /\ UNCHANGED sdb_pc
     ELSE IF ~connect_ok
     THEN /\ sdb_result' = [sdb_result EXCEPT ![th] =
               AbsorbedBySqliteHandler("sqlite3.Error")]
          /\ UNCHANGED sdb_pc
     ELSE /\ sdb_result' = [sdb_result EXCEPT ![th] = "none"]
          /\ sdb_pc' = [sdb_pc EXCEPT ![th] = "begun"]
  /\ UNCHANGED <<sdb_writer, sdb_count>>
  /\ UNCHANGED nonSdbVars

\* cursor.execute (185-196) takes the write lock and runs the upsert
SdbExecute(th) ==
  /\ sdb_pc[th] = "begun"
  /\ sdb_writer = None
  /\ sdb_writer' = th
  /\ sdb_pc' = [sdb_pc EXCEPT ![th] = "executed"]
  /\ UNCHANGED <<sdb_type, sdb_result, sdb_count, sdb_calls>>
  /\ UNCHANGED nonSdbVars

\* the write lock stayed taken for the whole busy_timeout (82):
\* cursor.execute raises sqlite3.OperationalError inside the with block
SdbExecuteFails(th) ==
  /\ sdb_pc[th] = "begun"
  /\ sdb_writer # None
  /\ sdb_result' = [sdb_result EXCEPT ![th] =
       AbsorbedBySqliteHandler(TransactionFailed("sqlite3.Error"))]
  /\ sdb_pc' = [sdb_pc EXCEPT ![th] = "idle"]
  /\ UNCHANGED <<sdb_type, sdb_writer, sdb_count, sdb_calls>>
  /\ UNCHANGED nonSdbVars

\* "return True" (198) leaves the with block: conn.commit() (98) makes the
\* row visible and releases the write lock
SdbCommit(th) ==
  /\ sdb_pc[th] = "executed"
  /\ sdb_count' = [sdb_count EXCEPT ![sdb_type[th]] = @ + 1]
  /\ sdb_writer' = None
  /\ sdb_result' = [sdb_result EXCEPT ![th] = "True"]
  /\ sdb_pc' = [sdb_pc EXCEPT ![th] = "idle"]
  /\ UNCHANGED <<sdb_type, sdb_calls>>
  /\ UNCHANGED nonSdbVars

NextSecureDb ==
  \/ \E th \in DbThreads, type \in AircraftTypes \cup {EmptyType},
        connect_ok \in BOOLEAN :
       SdbAddToLogbook(th, type, connect_ok)
  \/ \E th \in DbThreads : SdbExecute(th)
  \/ \E th \in DbThreads : SdbExecuteFails(th)
  \/ \E th \in DbThreads : SdbCommit(th)

SpecSecureDb == Init /\ [][NextSecureDb]_vars

\* =================================================================
\* Properties of the logbook write of database/db_secure (checked under
\* SpecSecureDb)
\* =================================================================

\* C34: a call of add_to_logbook ends with a return value, True or False,
\* and never with an exception.
C34_WriteErrorAbsorbed ==
  \A th \in DbThreads : sdb_result[th] \in {"none", "True", "False"}

\* =================================================================
\* Part 12: the API connection pool, backend/api/api_pool.py
\* (set_rate_limit 57-67, get_session 113-130, _enforce_rate_limit
\* 132-154, request 156-189), called by several threads.  _lock is one
\* threading.Lock for all hostnames.
\* =================================================================

\* set_rate_limit (57-67)
ApiSetRateLimit(hostname) ==
  /\ api_lock = None
  /\ rate_limits[hostname] = None
  /\ rate_limits' = [rate_limits EXCEPT ![hostname] = min_interval]
  /\ UNCHANGED <<api_pc, api_host, api_lock, last_request_times, sessions,
                 api_wake, api_now, api_calls>>
  /\ UNCHANGED nonApiVars

\* request (156-175) up to the lock: _enforce_rate_limit returns at once
\* for a hostname without a rate limit (139-140)
ApiRequest(th, hostname) ==
  /\ api_pc[th] = "idle"
  /\ api_calls < MaxApiCalls
  /\ api_calls' = api_calls + 1
  /\ api_host' = [api_host EXCEPT ![th] = hostname]
  /\ api_pc' = [api_pc EXCEPT ![th] =
       IF rate_limits[hostname] = None THEN "session" ELSE "enforce"]
  /\ UNCHANGED <<api_lock, last_request_times, rate_limits, sessions,
                 api_wake, api_now>>
  /\ UNCHANGED nonApiVars

\* _enforce_rate_limit takes _lock (142-154): without a need to wait it
\* stores the time and releases the lock; otherwise time.sleep begins with
\* the lock held.  A missing last time is 0, long ago for time.time()
ApiEnforce(th) ==
  /\ api_pc[th] = "enforce"
  /\ api_lock = None
  /\ LET hostname == api_host[th]
         last_request == last_request_times[hostname]
     IN  IF last_request # None
            /\ api_now - last_request < rate_limits[hostname]
         THEN /\ api_lock' = th
              /\ api_wake' = [api_wake EXCEPT ![th] =
                   last_request + rate_limits[hostname]]
              /\ api_pc' = [api_pc EXCEPT ![th] = "sleeping"]
              /\ UNCHANGED last_request_times
         ELSE /\ last_request_times' =
                   [last_request_times EXCEPT ![hostname] = api_now]
              /\ api_pc' = [api_pc EXCEPT ![th] = "session"]
              /\ UNCHANGED <<api_lock, api_wake>>
  /\ UNCHANGED <<api_host, rate_limits, sessions, api_now, api_calls>>
  /\ UNCHANGED nonApiVars

\* time.sleep returns (152-154): the time is stored and _lock released
ApiWake(th) ==
  /\ api_pc[th] = "sleeping"
  /\ api_now >= api_wake[th]
  /\ last_request_times' =
       [last_request_times EXCEPT ![api_host[th]] = api_now]
  /\ api_lock' = None
  /\ api_pc' = [api_pc EXCEPT ![th] = "session"]
  /\ UNCHANGED <<api_host, rate_limits, sessions, api_wake, api_now,
                 api_calls>>
  /\ UNCHANGED nonApiVars

\* get_session (113-130) under _lock, then session.request (177-189)
ApiGetSession(th) ==
  /\ api_pc[th] = "session"
  /\ api_lock = None
  /\ sessions' = sessions \cup {api_host[th]}
  /\ api_pc' = [api_pc EXCEPT ![th] = "idle"]
  /\ api_host' = [api_host EXCEPT ![th] = None]
  /\ UNCHANGED <<api_lock, last_request_times, rate_limits, api_wake,
                 api_now, api_calls>>
  /\ UNCHANGED nonApiVars

\* time passes
ApiTick ==
  /\ api_now < MaxApiTime
  /\ api_now' = api_now + 1
  /\ UNCHANGED <<api_pc, api_host, api_lock, last_request_times, rate_limits,
                 sessions, api_wake, api_calls>>
  /\ UNCHANGED nonApiVars

NextApi ==
  \/ \E hostname \in Hosts : ApiSetRateLimit(hostname)
  \/ \E th \in ApiThreads, hostname \in Hosts : ApiRequest(th, hostname)
  \/ \E th \in ApiThreads : ApiEnforce(th)
  \/ \E th \in ApiThreads : ApiWake(th)
  \/ \E th \in ApiThreads : ApiGetSession(th)
  \/ ApiTick

SpecApi == Init /\ [][NextApi]_vars

\* =================================================================
\* Properties of the API connection pool (checked under SpecApi)
\* =================================================================

\* a request of thread th waits for _lock while another thread sleeps,
\* holding it, for the rate limit of a different hostname
WaitsBehindOtherHost(th) ==
  /\ api_pc[th] \in {"enforce", "session"}
  /\ \E other \in ApiThreads :
       /\ api_pc[other] = "sleeping"
       /\ api_host[other] # api_host[th]

\* C36: no time passes for a request to one hostname while it waits behind
\* the rate limit of a different hostname, also with concurrent threads.
C36_HostsIndependent ==
  [][ApiTick => \A th \in ApiThreads : ~WaitsBehindOtherHost(th)]_vars

\* =================================================================
\* Part 13: the visibility pipeline of backend/opensky_client.py
\* (FlightDataClient.filter_aircraft 356-420, is_visible 422-442) with
\* utils/geometry.py, for positions on the axes through home.
\* =================================================================

\* abs()
Abs(x) == IF x < 0 THEN -x ELSE x

\* haversine_distance (geometry.py 9-40) from home, in km; on an axis the
\* great-circle distance is the offset along it
HaversineDistance(position) == Abs(position.east_km) + Abs(position.north_km)

\* bearing_between (geometry.py 43-72) from an origin to the point that
\* lies east_km and north_km away on an axis; atan2(0, 0) is 0
BearingBetween(east_km, north_km) ==
  IF north_km > 0 THEN 0
  ELSE IF east_km > 0 THEN 90
  ELSE IF north_km < 0 THEN 180
  ELSE IF east_km < 0 THEN 270
  ELSE 0

\* a test that takes every plane to be approaching
IsPlaneApproaching_Always(home_bearing, plane_bearing, true_track) == TRUE

\* is_plane_approaching (geometry.py 100-118), threshold 90.0
IsPlaneApproaching(home_bearing, plane_bearing, true_track) ==
  Abs(((plane_bearing - true_track + 180) % 360) - 180) < 90

\* elevation_angle(distance_km, altitude_m) >= MIN_ELEVATION_ANGLE
\* (geometry.py 75-97, opensky_client.py 442): atan is monotonic, so the
\* angle reaches the minimum when altitude / distance reaches its tangent
ElevationReachesMinimum(distance_km, altitude_m) ==
  LET distance_m == distance_km * 1000 IN
  IF distance_m = 0
  THEN (IF altitude_m > 0 THEN 90 ELSE 0) >= MIN_ELEVATION_ANGLE
  ELSE altitude_m * 1000 >= TanMinElevationPerMille * distance_m

\* the body of filter_aircraft's loop (372-417) for one aircraft: whether
\* it is appended to filtered, and the distance_km attached to it
FilterAircraft(aircraft) ==
  LET distance == HaversineDistance(aircraft.position)
      home_to_plane ==
        BearingBetween(aircraft.position.east_km, aircraft.position.north_km)
      plane_to_home ==
        BearingBetween(-aircraft.position.east_km,
                       -aircraft.position.north_km)
  IN  IF aircraft.on_ground
      THEN [kept |-> FALSE, distance_km |-> Missing]
      ELSE IF aircraft.baro_altitude = Missing
      THEN [kept |-> FALSE, distance_km |-> Missing]
      ELSE IF aircraft.baro_altitude < AltitudeFloor
      THEN [kept |-> FALSE, distance_km |-> Missing]
      ELSE IF distance > SEARCH_RADIUS_KM
      THEN [kept |-> FALSE, distance_km |-> distance]
      ELSE IF aircraft.true_track # Missing
              /\ ~IsPlaneApproaching(home_to_plane, plane_to_home,
                                     aircraft.true_track)
      THEN [kept |-> FALSE, distance_km |-> distance]
      ELSE [kept |-> TRUE, distance_km |-> distance]

\* is_visible (422-442)
IsVisible(aircraft, distance_km) ==
  IF distance_km = Missing THEN FALSE
  ELSE ElevationReachesMinimum(distance_km, aircraft.baro_altitude)

\* polling_loop passes a state vector through filter_aircraft and the
\* kept ones through is_visible (server.py 332, 344)
Classify(aircraft) ==
  /\ fa_in' = aircraft
  /\ LET filtered == FilterAircraft(aircraft) IN
       fa_out' =
         [kept |-> filtered.kept,
          distance_km |-> filtered.distance_km,
          visible |-> filtered.kept
                        /\ IsVisible(aircraft, filtered.distance_km)]
  /\ UNCHANGED nonFaVars

NextFilter == \E aircraft \in StateVectors : Classify(aircraft)

SpecFilter == Init /\ [][NextFilter]_vars

\* =================================================================
\* Properties of the visibility pipeline (checked under SpecFilter)
\* =================================================================

\* the angle between two directions, in degrees (0..180)
AngleBetween(a, b) ==
  LET d == Abs(a - b) IN IF d > 180 THEN 360 - d ELSE d

\* the aircraft's track points less than 90 degrees off the direction from
\* its position to home
OnClosingBearing(aircraft) ==
  AngleBetween(aircraft.true_track,
               BearingBetween(-aircraft.position.east_km,
                              -aircraft.position.north_km)) < 90

\* airborne, at or above the floor, inside the radius, high enough
MeetsFixedCriteria(aircraft) ==
  /\ ~aircraft.on_ground
  /\ aircraft.baro_altitude # Missing
  /\ aircraft.baro_altitude >= AltitudeFloor
  /\ HaversineDistance(aircraft.position) <= SEARCH_RADIUS_KM
  /\ \/ HaversineDistance(aircraft.position) = 0
     \/ aircraft.baro_altitude * 1000
          >= TanMinElevationPerMille * HaversineDistance(aircraft.position)
               * 1000

\* C31 as stated: an aircraft classified as visible is airborne, at or above
\* 500 m, inside the search radius, high enough and on a closing bearing,
\* whichever fields of its state vector are missing.
C31_VisibleOnClosingBearing ==
  fa_out.visible =>
    /\ MeetsFixedCriteria(fa_in)
    /\ fa_in.true_track # Missing
    /\ OnClosingBearing(fa_in)

\* C31, amended: an aircraft classified as visible is airborne, at or above
\* 500 m, inside the search radius and high enough, and it is on a closing
\* bearing whenever its state vector has a true track.
C31_VisibleMeetsCriteria ==
  fa_out.visible =>
    /\ MeetsFixedCriteria(fa_in)
    /\ fa_in.true_track # Missing => OnClosingBearing(fa_in)

\* a visible aircraft that has a true track
C31_Witness ==
  /\ fa_out.visible
  /\ fa_in.true_track # Missing
  /\ HaversineDistance(fa_in.position) > 0

\* =================================================================
\* Part 14: the stores keyed by ICAO24: table aircraft of
\* backend/database/db.py (130-172), the module cache of
\* backend/core/planespotters_client.py (25-46) and the spotted set of
\* backend/core/logbook_service.py (39-64).
\* =================================================================

\* AircraftDatabase.save_aircraft_to_cache (157-172): INSERT OR REPLACE
\* with record['icao24'].lower()
SaveAircraftToCache(icao24) ==
  /\ aircraft_table' = aircraft_table \cup {Lower(icao24)}
  /\ UNCHANGED <<aircraft_details_cache, spotted_set, icao_ret>>
  /\ UNCHANGED nonIcaoVars

\* AircraftDatabase.get_aircraft_from_cache (130-155)
GetAircraftFromCache(icao24) ==
  /\ icao_ret' = [op |-> "get_aircraft_from_cache", icao24 |-> icao24,
                  found |-> Lower(icao24) \in aircraft_table]
  /\ UNCHANGED <<aircraft_table, aircraft_details_cache, spotted_set>>
  /\ UNCHANGED nonIcaoVars

\* fetch_aircraft_details (25-46 and the store after an answer): the key
\* is icao24.upper()
FetchAircraftDetails(icao24) ==
  /\ icao_ret' = [op |-> "fetch_aircraft_details", icao24 |-> icao24,
                  found |-> Upper(icao24) \in aircraft_details_cache]
  /\ aircraft_details_cache' = aircraft_details_cache \cup {Upper(icao24)}
  /\ UNCHANGED <<aircraft_table, spotted_set>>
  /\ UNCHANGED nonIcaoVars

\* LogbookService.mark_aircraft_spotted (54-64)
MarkAircraftSpotted(icao24) ==
  /\ spotted_set' = spotted_set \cup {icao24}
  /\ UNCHANGED <<aircraft_table, aircraft_details_cache, icao_ret>>
  /\ UNCHANGED nonIcaoVars

\* LogbookService.is_aircraft_spotted (39-52)
IsAircraftSpotted(icao24) ==
  /\ icao_ret' = [op |-> "is_aircraft_spotted", icao24 |-> icao24,
                  found |-> icao24 \in spotted_set]
  /\ UNCHANGED <<aircraft_table, aircraft_details_cache, spotted_set>>
  /\ UNCHANGED nonIcaoVars

NextIcao ==
  \/ \E icao24 \in IcaoStrings : SaveAircraftToCache(icao24)
  \/ \E icao24 \in IcaoStrings : GetAircraftFromCache(icao24)
  \/ \E icao24 \in IcaoStrings : FetchAircraftDetails(icao24)
  \/ \E icao24 \in IcaoStrings : MarkAircraftSpotted(icao24)
  \/ \E icao24 \in IcaoStrings : IsAircraftSpotted(icao24)

SpecIcao == Init /\ [][NextIcao]_vars

\* =================================================================
\* Properties of the stores keyed by ICAO24 (checked under SpecIcao)
\* =================================================================

\* C32: the aircraft cache and the session's spotted set hold identifiers
\* in lower case only, and a lookup of an identifier finds what was stored
\* under any spelling of it.
C32_CaseInsensitiveIdentity ==
  /\ \A icao24 \in aircraft_table \cup spotted_set :
       icao24.spelling = "lower"
  /\ icao_ret.op = "get_aircraft_from_cache" =>
       (icao_ret.found <=>
          \E stored \in aircraft_table : Lower(stored) = Lower(icao_ret.icao24))
  /\ icao_ret.op = "is_aircraft_spotted" =>
       (icao_ret.found <=>
          \E stored \in spotted_set : Lower(stored) = Lower(icao_ret.icao24))

====
